---------------------------- MODULE Spec2Model ----------------------------
(***************************************************************************)
(* Holiday Panic Factory: the round state machine (game.py, class Game)    *)
(* and the four player mechanics (players.py: Builder, Wrapper, Decorator, *)
(* Foreman), driven by the main loop (main.py) one tick at a time.         *)
(*                                                                         *)
(* Numbers.  Python floats are modelled in fixed point:                    *)
(*   - time as it runs (dt, state_timer) in half seconds; the durations of *)
(*     config.py are written in seconds and converted by Seconds;          *)
(*   - positions, bar levels, zone sizes in thousandths (quality_bar 0.5   *)
(*     is 500) and rates in thousandths per second (0.35/s is 350);        *)
(*   - Foreman's drift multiplier in tenths (1.5 is 15).                   *)
(* Every product rate * dt of the program's rates with a dt of whole half  *)
(* seconds is a whole number of thousandths, so the model rounds nothing.  *)
(***************************************************************************)
EXTENDS Integers, Sequences, FiniteSets, TLC

(***************************************************************************)
(* Bounds of the model (not program constants).                            *)
(***************************************************************************)
\* Rounds started in one session of SpecSession.
MaxRound == 8
\* Rounds started in one session of SpecPlay.
PlayRounds == 2
\* The largest dt of an ordinary tick, in half seconds.
MaxDt == 2
\* Ticks keep arriving in Reveal until the timer is this many half seconds
\* below zero.
MaxLinger == 2
\* The longest arrow sequence configured in SpecDecorator.
MaxLen == 3

\* The most events pygame.event.get() hands to one tick in SpecInput.
MaxEvents == 2

\* The method calls made on a mechanic between two configurations in
\* SpecUnits.
UnitCalls == 3

\* The significant bits of a float and the bits below 1 of its least step.
MantissaBits == 6
FracBits == 8

\* A dt longer than a whole round (a stalled frame), in half seconds.
BigDt == 60

DtValues == (1..MaxDt) \cup {BigDt}

\* The values random.uniform(-1, 1) is sampled at (players.py:328).
DriftDraws == {-1, 0, 1}

\* The sets of mechanics varied in the runs of SpecPlay: one mechanic per
\* run (1 Builder, 2 Wrapper, 3 Decorator, 4 Foreman).
LiveSets == {{1}, {2}, {3}, {4}}

(***************************************************************************)
(* config.py                                                               *)
(***************************************************************************)
EASY == 1
STANDARD == 2
NIGHTMARE == 3

MENU == "menu"
BRIEFING == "briefing"
PLAYING == "playing"
REVEAL == "reveal"
GAME_OVER == "game_over"
GameState == {MENU, BRIEFING, PLAYING, REVEAL, GAME_OVER}

BRIEFING_DURATION == 4
REVEAL_DURATION == 5
BUILDER_QUALITY_LINE == 500

ARROW_DIRECTIONS == {"UP", "DOWN", "LEFT", "RIGHT"}

NIGHTMARE_DRIFT_MULTIPLIER == 25
STANDARD_DRIFT_MULTIPLIER == 15
EASY_DRIFT_MULTIPLIER == 10

\* The names of SOUND_MAP and the states of MUSIC_MAP.
SOUND_MAP ==
    {"button_press", "tick", "success", "fail", "countdown", "siren",
     "whoosh", "thump", "wrap", "ribbon_tie", "error", "perfect"}
MUSIC_MAP == {"menu", "briefing", "playing", "reveal"}

Order(name, arrows, limit, decay, zone, asset) ==
    [name |-> name, p3_arrows |-> arrows, time_limit |-> limit,
     p1_decay_rate |-> decay, p2_zone_size |-> zone, toy_asset |-> asset]

ORDERS ==
    [tier \in {EASY, STANDARD, NIGHTMARE} |->
        CASE tier = EASY ->
               << Order("Socks", 4, 8, 300, 300, "socks"),
                  Order("Ball", 5, 8, 350, 280, "ball"),
                  Order("Box", 6, 9, 400, 260, "box") >>
          [] tier = STANDARD ->
               << Order("Robot", 10, 12, 700, 180, "robot"),
                  Order("Doll", 12, 13, 750, 160, "doll"),
                  Order("Bicycle", 15, 14, 800, 150, "bicycle") >>
          [] tier = NIGHTMARE ->
               << Order("Grand Piano", 25, 18, 1500, 50, "piano"),
                  Order("T-Rex", 30, 20, 1800, 50, "trex"),
                  Order("Spaceship", 28, 19, 1600, 60, "spaceship") >> ]

\* Python's None for current_tier (an integer otherwise).
NoTier == 0
\* Python's None for a string, and for current_order, a sprite and a manager
\* (records otherwise).
None == "None"
NoOrder == [name |-> None]
NoSprite == [sprite |-> None]
NoManager == [manager |-> None]

\* A duration of n seconds, and the change rate * dt of a quantity that
\* changes by rate per second, with dt in half seconds.
Seconds(n) == 2 * n
Times(rate, dt) == (rate * dt) \div 2

Max(a, b) == IF a >= b THEN a ELSE b
Min(a, b) == IF a <= b THEN a ELSE b
Abs(a) == IF a >= 0 THEN a ELSE -a

\* 1.0 in thousandths: the upper end of every bar, cursor and needle.
ONE == 1000


(***************************************************************************)
(* players.py: Builder                                                     *)
(***************************************************************************)
\* Builder.__init__ (with Player.__init__)
Builder_init ==
    [success |-> FALSE, quality_bar |-> 0, decay_rate |-> 500, fill_rate |-> 150]

\* Builder_reset leaving the bar where the last round left it.
Builder_reset_keeps_bar(b) == [b EXCEPT !.success = FALSE]

\* Builder.reset (with Player.reset)
Builder_reset(b) == [b EXCEPT !.success = FALSE, !.quality_bar = 500]

Builder_set_difficulty(b, decay_rate) == [b EXCEPT !.decay_rate = decay_rate]

\* Builder_update with no decay in the ticks that see a control held.
Builder_update_held(b, dt, any) ==
    LET moved == IF any THEN b.quality_bar + Times(b.fill_rate, dt)
                 ELSE b.quality_bar - Times(b.decay_rate, dt)
    IN  [b EXCEPT !.quality_bar = Max(0, Min(ONE, moved))]

\* Builder_update without decay.
Builder_update_no_decay(b, dt, any) ==
    LET filled == IF any THEN b.quality_bar + Times(b.fill_rate, dt)
                  ELSE b.quality_bar
    IN  [b EXCEPT !.quality_bar = Max(0, Min(ONE, filled))]

\* Builder_update without the final clamp.
Builder_update_unclamped(b, dt, any) ==
    LET decayed == b.quality_bar - Times(b.decay_rate, dt)
        filled  == IF any THEN decayed + Times(b.fill_rate, dt) ELSE decayed
    IN  [b EXCEPT !.quality_bar = filled]

\* any: get_player1_input()['any'], P1_LEFT or P1_RIGHT held.
Builder_update(b, dt, any) ==
    LET decayed == b.quality_bar - Times(b.decay_rate, dt)
        filled  == IF any THEN decayed + Times(b.fill_rate, dt) ELSE decayed
    IN  [b EXCEPT !.quality_bar = Max(0, Min(ONE, filled))]

Builder_check_success(b) ==
    [b EXCEPT !.success = (b.quality_bar >= BUILDER_QUALITY_LINE)]

(***************************************************************************)
(* players.py: Wrapper.  press_position is <<>> for None, <<p>> otherwise. *)
(***************************************************************************)
Wrapper_init ==
    [success |-> FALSE, cursor_position |-> 0, cursor_speed |-> 800,
     cursor_direction |-> 1, zone_size |-> 300, zone_center |-> 500,
     has_pressed |-> FALSE, press_position |-> << >>]

\* Wrapper_reset without the call of Player.reset.
Wrapper_reset_keeps_success(w) ==
    [w EXCEPT !.cursor_position = 0, !.has_pressed = FALSE,
              !.press_position = << >>]

Wrapper_reset(w) ==
    [w EXCEPT !.success = FALSE, !.cursor_position = 0,
              !.has_pressed = FALSE, !.press_position = << >>]

Wrapper_set_difficulty(w, zone_size) == [w EXCEPT !.zone_size = zone_size]

\* Wrapper_update travelling back from a bound the distance it went past it.
Wrapper_update_reflecting(w, dt, pressed) ==
    IF w.has_pressed THEN w
    ELSE LET moved  == w.cursor_position
                       + Times(w.cursor_speed * w.cursor_direction, dt)
             folded == moved % (2 * ONE)
             pos    == IF folded <= ONE THEN folded ELSE 2 * ONE - folded
             dir    == IF moved >= ONE THEN -1
                       ELSE IF moved <= 0 THEN 1 ELSE w.cursor_direction
         IN  IF pressed
             THEN [w EXCEPT !.cursor_position = pos, !.cursor_direction = dir,
                            !.has_pressed = TRUE, !.press_position = << pos >>]
             ELSE [w EXCEPT !.cursor_position = pos, !.cursor_direction = dir]

\* Wrapper_update with a cursor that keeps moving after the press.
Wrapper_update_moving(w, dt, pressed) ==
    LET moved == w.cursor_position
                 + Times(w.cursor_speed * w.cursor_direction, dt)
        pos   == IF moved >= ONE THEN ONE ELSE IF moved <= 0 THEN 0 ELSE moved
        dir   == IF moved >= ONE THEN -1
                 ELSE IF moved <= 0 THEN 1 ELSE w.cursor_direction
    IN  IF pressed /\ ~w.has_pressed
        THEN [w EXCEPT !.cursor_position = pos, !.cursor_direction = dir,
                       !.has_pressed = TRUE, !.press_position = << pos >>]
        ELSE [w EXCEPT !.cursor_position = pos, !.cursor_direction = dir]

\* pressed: get_player2_input()['pressed'], P2_ACTION pressed this frame.
Wrapper_update(w, dt, pressed) ==
    IF w.has_pressed THEN w
    ELSE LET moved == w.cursor_position
                      + Times(w.cursor_speed * w.cursor_direction, dt)
             pos   == IF moved >= ONE THEN ONE ELSE IF moved <= 0 THEN 0 ELSE moved
             dir   == IF moved >= ONE THEN -1
                      ELSE IF moved <= 0 THEN 1 ELSE w.cursor_direction
         IN  IF pressed
             THEN [w EXCEPT !.cursor_position = pos, !.cursor_direction = dir,
                            !.has_pressed = TRUE, !.press_position = << pos >>]
             ELSE [w EXCEPT !.cursor_position = pos, !.cursor_direction = dir]

\* Wrapper_check_success with the zone's edges excluded.
Wrapper_check_success_open(w) ==
    IF w.press_position = << >>
    THEN [w EXCEPT !.success = FALSE]
    ELSE LET p == w.press_position[1]
         IN  [w EXCEPT !.success =
                  /\ 2 * w.zone_center - w.zone_size < 2 * p
                  /\ 2 * p < 2 * w.zone_center + w.zone_size]

\* zone_center -/+ zone_size / 2 is compared after doubling both sides, which
\* keeps the halves exact.
Wrapper_check_success(w) ==
    IF w.press_position = << >>
    THEN [w EXCEPT !.success = FALSE]
    ELSE LET p == w.press_position[1]
         IN  [w EXCEPT !.success =
                  /\ 2 * w.zone_center - w.zone_size <= 2 * p
                  /\ 2 * p <= 2 * w.zone_center + w.zone_size]

(***************************************************************************)
(* players.py: Decorator                                                   *)
(***************************************************************************)
Decorator_init ==
    [success |-> FALSE, arrow_sequence |-> << >>, current_index |-> 0,
     completed |-> FALSE]

Decorator_reset(d) ==
    [d EXCEPT !.success = FALSE, !.current_index = 0, !.completed = FALSE]

\* sequence: the arrow_count draws of random.choice(ARROW_DIRECTIONS).
Decorator_set_difficulty(d, arrow_count, sequence) ==
    [d EXCEPT !.arrow_sequence = [i \in 1..arrow_count |-> sequence[i]]]

\* Decorator_update in which an arrow pressed after the completion sends
\* the index back to 0.
Decorator_update_resettable(d, arrows_pressed) ==
    IF d.completed
    THEN IF Cardinality(arrows_pressed) > 0
         THEN [d EXCEPT !.current_index = 0] ELSE d
    ELSE IF d.current_index >= Len(d.arrow_sequence)
    THEN [d EXCEPT !.completed = TRUE, !.success = TRUE]
    ELSE LET expected == d.arrow_sequence[d.current_index + 1]
         IN  IF expected \in arrows_pressed
             THEN [d EXCEPT !.current_index = d.current_index + 1]
             ELSE IF Cardinality(arrows_pressed) > 0
             THEN [d EXCEPT !.current_index = 0]
             ELSE d

\* Decorator_update accepting the expected arrow only when pressed alone.
Decorator_update_exact(d, arrows_pressed) ==
    IF d.completed THEN d
    ELSE IF d.current_index >= Len(d.arrow_sequence)
    THEN [d EXCEPT !.completed = TRUE, !.success = TRUE]
    ELSE LET expected == d.arrow_sequence[d.current_index + 1]
         IN  IF arrows_pressed = {expected}
             THEN [d EXCEPT !.current_index = d.current_index + 1]
             ELSE IF Cardinality(arrows_pressed) > 0
             THEN [d EXCEPT !.current_index = 0]
             ELSE d

\* Decorator_update never completing an empty sequence.
Decorator_update_nonempty(d, arrows_pressed) ==
    IF d.completed \/ Len(d.arrow_sequence) = 0 THEN d
    ELSE IF d.current_index >= Len(d.arrow_sequence)
    THEN [d EXCEPT !.completed = TRUE, !.success = TRUE]
    ELSE LET expected == d.arrow_sequence[d.current_index + 1]
         IN  IF expected \in arrows_pressed
             THEN [d EXCEPT !.current_index = d.current_index + 1]
             ELSE IF Cardinality(arrows_pressed) > 0
             THEN [d EXCEPT !.current_index = 0]
             ELSE d

\* arrows_pressed: get_player3_input()['keys_pressed'], the directions pressed
\* this frame (get_arrow_keys_pressed lists each direction at most once).
Decorator_update(d, arrows_pressed) ==
    IF d.completed THEN d
    ELSE IF d.current_index >= Len(d.arrow_sequence)
    THEN [d EXCEPT !.completed = TRUE, !.success = TRUE]
    ELSE LET expected == d.arrow_sequence[d.current_index + 1]
         IN  IF expected \in arrows_pressed
             THEN [d EXCEPT !.current_index = d.current_index + 1]
             ELSE IF Cardinality(arrows_pressed) > 0
             THEN [d EXCEPT !.current_index = 0]
             ELSE d

\* Returns self.success without assigning it.
Decorator_check_success(d) == d

\* Every outcome of the arrow_count draws.
AllSequences(arrow_count) == [1..arrow_count -> ARROW_DIRECTIONS]

(***************************************************************************)
(* players.py: Foreman                                                     *)
(***************************************************************************)
Foreman_init ==
    [success |-> FALSE, needle_position |-> 500, drift_speed |-> 300,
     control_speed |-> 600, drift_multiplier |-> 10]

Foreman_reset(f) == [f EXCEPT !.success = FALSE, !.needle_position = 500]

\* Foreman_set_difficulty with the Standard and Nightmare multipliers swapped.
Foreman_set_difficulty_swapped(f, tier) ==
    [f EXCEPT !.drift_multiplier =
        IF tier = NIGHTMARE THEN STANDARD_DRIFT_MULTIPLIER
        ELSE IF tier = STANDARD THEN NIGHTMARE_DRIFT_MULTIPLIER
        ELSE EASY_DRIFT_MULTIPLIER]

Foreman_set_difficulty(f, tier) ==
    [f EXCEPT !.drift_multiplier =
        IF tier = NIGHTMARE THEN NIGHTMARE_DRIFT_MULTIPLIER
        ELSE IF tier = STANDARD THEN STANDARD_DRIFT_MULTIPLIER
        ELSE EASY_DRIFT_MULTIPLIER]

\* Foreman_update without the clamp that ends it.
Foreman_update_unclamped(f, dt, u, left, right) ==
    LET drift == Times(u * f.drift_speed * f.drift_multiplier, dt) \div 10
        n1 == f.needle_position + drift
        n2 == IF left THEN n1 - Times(f.control_speed, dt) ELSE n1
        n3 == IF right THEN n2 + Times(f.control_speed, dt) ELSE n2
    IN  [f EXCEPT !.needle_position = n3]

\* Foreman_update with a drift that ignores drift_multiplier.
Foreman_update_unscaled(f, dt, u, left, right) ==
    LET drift == Times(u * f.drift_speed, dt)
        n1 == f.needle_position + drift
        n2 == IF left THEN n1 - Times(f.control_speed, dt) ELSE n1
        n3 == IF right THEN n2 + Times(f.control_speed, dt) ELSE n2
    IN  [f EXCEPT !.needle_position = Max(0, Min(ONE, n3))]

\* u: the draw of random.uniform(-1, 1); left, right: P4_LEFT, P4_RIGHT held.
\* drift_multiplier is in tenths, hence the division by 10 (exact for the
\* three configured multipliers).
Foreman_update(f, dt, u, left, right) ==
    LET drift == Times(u * f.drift_speed * f.drift_multiplier, dt) \div 10
        n1 == f.needle_position + drift
        n2 == IF left THEN n1 - Times(f.control_speed, dt) ELSE n1
        n3 == IF right THEN n2 + Times(f.control_speed, dt) ELSE n2
    IN  [f EXCEPT !.needle_position = Max(0, Min(ONE, n3))]

\* Foreman_check_success with the distance 0.3 itself accepted.
Foreman_check_success_inclusive(f) ==
    [f EXCEPT !.success = Abs(f.needle_position - 500) <= 300]

Foreman_check_success(f) ==
    [f EXCEPT !.success = (Abs(f.needle_position - 500) < 300)]

(***************************************************************************)
(* players.py: Foreman.update in binary floating point.  Python's floats   *)
(* round every product, sum and difference to the nearest value of 53      *)
(* significant bits, ties to the even one.  The same rounding is kept here *)
(* in a format of MantissaBits significant bits whose least step is        *)
(* 2^-FracBits: a float is the integer number of such steps it holds.      *)
(***************************************************************************)
FloatOne == 2 ^ FracBits

RECURSIVE TopBit(_)
TopBit(a) == IF a < 2 THEN 0 ELSE 1 + TopBit(a \div 2)

\* The float nearest to n / d, for n >= 0 and d > 0 counted in steps.
RoundQuotient(n, d) ==
    LET k  == TopBit(n \div d)
        q  == IF k >= MantissaBits THEN 2 ^ (k - MantissaBits + 1) ELSE 1
        lo == n \div (d * q)
        r  == n - lo * d * q
    IN  IF 2 * r < d * q THEN lo * q
        ELSE IF 2 * r > d * q THEN (lo + 1) * q
        ELSE IF lo % 2 = 0 THEN lo * q ELSE (lo + 1) * q

\* The float of the decimal literal or integer n / d.
Float(n, d) == IF n >= 0 THEN RoundQuotient(n * FloatOne, d)
               ELSE -RoundQuotient((-n) * FloatOne, d)

\* Python's x + y, x - y and x * y on floats.
FloatAdd(x, y) == IF x + y >= 0 THEN RoundQuotient(x + y, 1)
                  ELSE -RoundQuotient(-(x + y), 1)
FloatSub(x, y) == FloatAdd(x, -y)
FloatMul(x, y) == IF x * y >= 0 THEN RoundQuotient(x * y, FloatOne)
                  ELSE -RoundQuotient(-(x * y), FloatOne)

\* The distance between neighbouring floats at the magnitude x >= 0.
Spacing(x) ==
    IF TopBit(x) >= MantissaBits THEN 2 ^ (TopBit(x) - MantissaBits + 1) ELSE 1

\* Foreman.__init__ and Foreman.reset, the fields held as floats.
Foreman_init_float ==
    [success |-> FALSE, needle_position |-> Float(5, 10),
     drift_speed |-> Float(3, 10), control_speed |-> Float(6, 10),
     drift_multiplier |-> Float(10, 10)]

Foreman_reset_float(f) ==
    [f EXCEPT !.success = FALSE, !.needle_position = Float(5, 10)]

\* Foreman_update_float with the needle clamped after each control.
Foreman_update_float_stepwise(f, dt, u, left, right) ==
    LET drift == FloatMul(FloatMul(FloatMul(u, f.drift_speed),
                                   f.drift_multiplier), dt)
        n1 == FloatAdd(f.needle_position, drift)
        n2 == IF left
              THEN Max(0, Min(FloatOne, FloatSub(n1, FloatMul(f.control_speed, dt))))
              ELSE n1
        n3 == IF right
              THEN Max(0, Min(FloatOne, FloatAdd(n2, FloatMul(f.control_speed, dt))))
              ELSE n2
    IN  [f EXCEPT !.needle_position = Max(0, Min(FloatOne, n3))]

\* Foreman.update on floats: dt and the draw u are floats, the products are
\* taken from left to right and every operation rounds.
Foreman_update_float(f, dt, u, left, right) ==
    LET drift == FloatMul(FloatMul(FloatMul(u, f.drift_speed),
                                   f.drift_multiplier), dt)
        n1 == FloatAdd(f.needle_position, drift)
        n2 == IF left THEN FloatSub(n1, FloatMul(f.control_speed, dt)) ELSE n1
        n3 == IF right THEN FloatAdd(n2, FloatMul(f.control_speed, dt)) ELSE n2
    IN  [f EXCEPT !.needle_position = Max(0, Min(FloatOne, n3))]

(***************************************************************************)
(* asset_manager.py: AssetManager, as far as Game.update uses it.          *)
(***************************************************************************)
\* An AssetManager; found: whether the sprites ASSET_MAP names can be found
\* and loaded.
AssetManager_init(found) == [found |-> found]

\* AssetManager.get_sprite: the sprite, or None when it is not in ASSET_MAP
\* or cannot be loaded.
get_sprite(am, asset_type, name, variant) ==
    IF am.found
    THEN [asset_type |-> asset_type, name |-> name, variant |-> variant]
    ELSE NoSprite

(***************************************************************************)
(* sound_manager.py: SoundManager.  current_music holds the state whose    *)
(* track ("<state>_music") is playing; sfx_channels holds the names of the *)
(* looping sounds that have a channel; looping counts, for each sound, the *)
(* mixer channels playing it in a loop (a channel is taken to be free      *)
(* whenever one is asked for); requests records the names play_sound was   *)
(* called with, in order.                                                  *)
(***************************************************************************)
\* SoundManager() after preload_sounds; loaded: whether the sound and music
\* files exist and load (all of them, or none).
SoundManager_init(loaded) ==
    [loaded |-> loaded, muted |-> FALSE, current_music |-> None,
     sfx_channels |-> {}, looping |-> [name \in SOUND_MAP |-> 0],
     requests |-> << >>]

\* SoundManager.sounds, the cache of loaded sounds, and the states whose
\* music file load_music can load.
Sounds(sm) == IF sm.loaded THEN SOUND_MAP ELSE {}
Music(sm) == IF sm.loaded THEN MUSIC_MAP ELSE {}

\* SoundManager.play_sound starts a channel, unless muted or the sound is
\* not loaded, and changes no field of the manager.
play_sound(sm, name) == [sm EXCEPT !.requests = Append(@, name)]

\* stop_looping_sound forgetting the channel without stopping it.
stop_looping_sound_forgetting(sm, name) ==
    [sm EXCEPT !.sfx_channels = @ \ {name}]

\* SoundManager.stop_looping_sound
stop_looping_sound(sm, name) ==
    IF name \in sm.sfx_channels
    THEN [sm EXCEPT !.sfx_channels = @ \ {name}, !.looping[name] = @ - 1]
    ELSE sm

\* SoundManager.play_looping_sound
play_looping_sound(sm, name) ==
    IF sm.muted THEN sm
    ELSE LET stopped == stop_looping_sound(sm, name)
         IN  IF name \in Sounds(stopped)
             THEN [stopped EXCEPT !.sfx_channels = @ \cup {name},
                                  !.looping[name] = @ + 1]
             ELSE stopped

\* SoundManager.toggle_mute
toggle_mute(sm) == [sm EXCEPT !.muted = ~@]

\* SoundManager.play_music, with load_music succeeding when the file exists.
play_music(sm, music_state) ==
    IF sm.muted THEN sm
    ELSE IF sm.current_music # music_state /\ music_state \in Music(sm)
    THEN [sm EXCEPT !.current_music = music_state]
    ELSE sm

\* SoundManager.play_state_music
play_state_music(sm, music_state) ==
    IF music_state \in MUSIC_MAP THEN play_music(sm, music_state) ELSE sm

(***************************************************************************)
(* input_manager.py: InputManager.  Keys are named as in pygame; an event  *)
(* is a record [type, key].                                                *)
(***************************************************************************)
KEYDOWN == "KEYDOWN"
KEYUP == "KEYUP"

InputAction ==
    {"p1_left", "p1_right", "p2_action", "p3_up", "p3_down", "p3_left",
     "p3_right", "p4_left", "p4_right", "menu_confirm", "menu_back", "pause",
     "mute"}

\* The default mappings of InputManager.__init__.
key_mappings ==
    [action \in InputAction |->
        CASE action = "p1_left"      -> {"K_a"}
          [] action = "p1_right"     -> {"K_d"}
          [] action = "p2_action"    -> {"K_SPACE"}
          [] action = "p3_up"        -> {"K_UP"}
          [] action = "p3_down"      -> {"K_DOWN"}
          [] action = "p3_left"      -> {"K_LEFT"}
          [] action = "p3_right"     -> {"K_RIGHT"}
          [] action = "p4_left"      -> {"K_KP4", "K_LEFTBRACKET"}
          [] action = "p4_right"     -> {"K_KP6", "K_RIGHTBRACKET"}
          [] action = "menu_confirm" -> {"K_RETURN", "K_KP_ENTER"}
          [] action = "menu_back"    -> {"K_ESCAPE"}
          [] action = "pause"        -> {"K_ESCAPE", "K_p"}
          [] action = "mute"         -> {"K_m"}]

InputManager_init ==
    [keys_pressed_this_frame |-> << >>, keys_held |-> {},
     actions_pressed_this_frame |-> {}, actions_held |-> {}]

ActionsOf(key) == {action \in InputAction : key \in key_mappings[action]}

\* ProcessEvent releasing an action with any one of its keys.
ProcessEvent_single(im, event) ==
    IF event.type = KEYDOWN
    THEN [im EXCEPT
            !.keys_pressed_this_frame = Append(@, event.key),
            !.keys_held = @ \cup {event.key},
            !.actions_pressed_this_frame = @ \cup ActionsOf(event.key),
            !.actions_held = @ \cup ActionsOf(event.key)]
    ELSE IF event.type = KEYUP
    THEN [im EXCEPT
            !.keys_held = @ \ {event.key},
            !.actions_held = @ \ ActionsOf(event.key)]
    ELSE im

\* One pass of the loop over the events of InputManager.update.
ProcessEvent(im, event) ==
    IF event.type = KEYDOWN
    THEN [im EXCEPT
            !.keys_pressed_this_frame = Append(@, event.key),
            !.keys_held = @ \cup {event.key},
            !.actions_pressed_this_frame = @ \cup ActionsOf(event.key),
            !.actions_held = @ \cup ActionsOf(event.key)]
    ELSE IF event.type = KEYUP
    THEN LET held == im.keys_held \ {event.key}
         IN  [im EXCEPT
                !.keys_held = held,
                !.actions_held =
                    @ \ {action \in ActionsOf(event.key) :
                            key_mappings[action] \cap held = {}}]
    ELSE im

RECURSIVE ProcessEvents(_, _)
ProcessEvents(im, batch) ==
    IF batch = << >> THEN im
    ELSE ProcessEvents(ProcessEvent(im, Head(batch)), Tail(batch))

\* InputManager_update without the clearing of the frame's data.
InputManager_update_sticky(im, batch) == ProcessEvents(im, batch)

InputManager_update(im, batch) ==
    ProcessEvents([im EXCEPT !.keys_pressed_this_frame = << >>,
                             !.actions_pressed_this_frame = {}], batch)

is_action_pressed(im, action) == action \in im.actions_pressed_this_frame
is_action_held(im, action) == action \in im.actions_held

(***************************************************************************)
(* game.py: the four update calls of a Playing tick as the statements they *)
(* are, each acting on everything an update can reach.  ms holds the four   *)
(* mechanics and draws, the coming outputs of the random module; tick      *)
(* holds dt and the answers of the input manager, which no update changes. *)
(***************************************************************************)
\* UpdateMechanic with a Decorator.update that takes a draw, as its
\* set_difficulty does.
UpdateMechanic_drawing(k, ms, tick) ==
    CASE k = 1 -> [ms EXCEPT !.builder =
                       Builder_update(@, tick.dt, tick.p1_any)]
      [] k = 2 -> [ms EXCEPT !.wrapper =
                       Wrapper_update(@, tick.dt, tick.p2_pressed)]
      [] k = 3 -> [ms EXCEPT !.decorator =
                       Decorator_update(@, tick.arrows_pressed),
                             !.draws = Tail(@)]
      [] k = 4 -> [ms EXCEPT !.foreman =
                       Foreman_update(@, tick.dt, Head(ms.draws),
                                      tick.p4_left, tick.p4_right),
                             !.draws = Tail(@)]

\* The update call of mechanic k (1 Builder, 2 Wrapper, 3 Decorator,
\* 4 Foreman).
UpdateMechanic(k, ms, tick) ==
    CASE k = 1 -> [ms EXCEPT !.builder =
                       Builder_update(@, tick.dt, tick.p1_any)]
      [] k = 2 -> [ms EXCEPT !.wrapper =
                       Wrapper_update(@, tick.dt, tick.p2_pressed)]
      [] k = 3 -> [ms EXCEPT !.decorator =
                       Decorator_update(@, tick.arrows_pressed)]
      [] k = 4 -> [ms EXCEPT !.foreman =
                       Foreman_update(@, tick.dt, Head(ms.draws),
                                      tick.p4_left, tick.p4_right),
                             !.draws = Tail(@)]

\* The update calls made one after the other in the given order.
RECURSIVE UpdateInOrder(_, _, _)
UpdateInOrder(order, ms, tick) ==
    IF order = << >> THEN ms
    ELSE UpdateInOrder(Tail(order), UpdateMechanic(Head(order), ms, tick), tick)

\* The orders the four calls can be written in; game.py has << 1, 2, 3, 4 >>.
UpdateOrders ==
    {order \in [1..4 -> 1..4] : \A i, j \in 1..4 : order[i] = order[j] => i = j}

\* The successes end_action_phase reads off the mechanics.
SuccessesOf(ms) ==
    << Builder_check_success(ms.builder).success,
       Wrapper_check_success(ms.wrapper).success,
       Decorator_check_success(ms.decorator).success,
       Foreman_check_success(ms.foreman).success >>

(***************************************************************************)
(* The session: game.py (class Game) driven by main.py's loop.             *)
(***************************************************************************)
VARIABLES
    state,          \* Game.state
    current_order,  \* Game.current_order
    current_tier,   \* Game.current_tier
    round_number,   \* Game.round_number
    score,          \* Game.score
    state_timer,    \* Game.state_timer
    round_results,  \* Game.round_results
    builder,        \* Game.builder
    wrapper,        \* Game.wrapper
    decorator,      \* Game.decorator
    foreman,        \* Game.foreman
    asset_manager,  \* Game.asset_manager (NoManager for None)
    sound_manager,  \* Game.sound_manager (NoManager for None)
    orders,         \* config.ORDERS, the order database in use
    raised,         \* the exception that ended the program (None if none)
    evaluated,      \* history: the mechanics whose check_success Game has
                    \* called, in the order of the calls
    dt,             \* history: dt of the latest tick if Briefing or Reveal
                    \* handled it (SpecLogged: also Playing), 0 otherwise;
                    \* in SpecUnits the dt of the latest call if it was an
                    \* update, 0 otherwise
    confirm,        \* history: whether MENU_CONFIRM was pressed in the latest
                    \* tick if Menu or Reveal handled it, FALSE otherwise
    elapsed,        \* history: the dt accumulated since the phase was entered
                    \* (0 in Menu)
    keys_pressed,   \* history, SpecDecorator: the arrows of the latest update;
                    \* SpecUnits: the controls the latest update saw;
                    \* SpecLogged: the input of the latest Playing tick
    calls,          \* history, SpecDecorator: update calls since the reset;
                    \* SpecUnits: method calls since the configuration;
                    \* SpecRoundTrip: the round trips made
    live,           \* the mechanics whose input and draws vary in this run
    max_round,      \* the number of rounds this run may start
    input_manager,  \* main's InputManager
    events          \* history, SpecInput: the events of the latest tick

game_vars == << state, current_order, current_tier, round_number, score,
                state_timer, round_results, sound_manager >>
mechanics == << builder, wrapper, decorator, foreman >>
vars == << state, current_order, current_tier, round_number, score,
           state_timer, round_results, builder, wrapper, decorator, foreman,
           asset_manager, sound_manager, orders, raised, evaluated,
           dt, confirm, elapsed, keys_pressed, calls, live, max_round,
           input_manager, events >>

\* Game.__init__ with the collaborators am and sm (NoManager for None).
Game_init(am, sm) ==
    /\ state = MENU
    /\ current_order = NoOrder
    /\ current_tier = NoTier
    /\ round_number = 0
    /\ score = 0
    /\ asset_manager = am
    /\ sound_manager = IF sm = NoManager THEN sm ELSE play_state_music(sm, MENU)
    /\ state_timer = 0
    /\ builder = Builder_init
    /\ wrapper = Wrapper_init
    /\ decorator = Decorator_init
    /\ foreman = Foreman_init
    /\ round_results = [toy |-> NoSprite, wrap |-> NoSprite, bow |-> NoSprite]
    /\ raised = None
    /\ evaluated = << >>
    /\ dt = 0
    /\ confirm = FALSE
    /\ elapsed = 0
    /\ keys_pressed = {}
    /\ calls = 0
    /\ input_manager = InputManager_init
    /\ events = << >>

\* The Game main() constructs: managers whose assets and sounds all loaded,
\* and the order database of config.py.
GameInit ==
    /\ Game_init(AssetManager_init(TRUE), SoundManager_init(TRUE))
    /\ orders = ORDERS

\* The orders of a tier, as the set random.choice draws from.
OrdersOf(tier) == {orders[tier][i] : i \in 1..Len(orders[tier])}

\* TierOf with the thresholds tested by < instead of <=.
TierOf_strict(n) ==
    IF n < 3 THEN EASY ELSE IF n < 7 THEN STANDARD ELSE NIGHTMARE

\* The tier of a round: start_new_round's threshold test.
TierOf(n) ==
    IF n <= 3 THEN EASY ELSE IF n <= 7 THEN STANDARD ELSE NIGHTMARE

\* The sound manager after Game.update's play_sound('button_press'), made
\* before each call of start_new_round.
button_press ==
    IF sound_manager = NoManager THEN sound_manager
    ELSE play_sound(sound_manager, "button_press")

\* The check_success calls of end_action_phase, reversed.
Evaluations_reversed == << "foreman", "decorator", "wrapper", "builder" >>

\* The check_success calls of end_action_phase, in its order.
Evaluations == << "builder", "wrapper", "decorator", "foreman" >>

\* The cue end_action_phase asks for.
OutcomeCue_three(round_score) ==
    IF round_score = 4 THEN "perfect"
    ELSE IF round_score >= 3 THEN "success"
    ELSE "fail"

OutcomeCue(round_score) ==
    IF round_score = 4 THEN "perfect"
    ELSE IF round_score >= 2 THEN "success"
    ELSE "fail"

\* Game.start_new_round; order: the draw of random.choice(ORDERS[tier]);
\* sm: the sound manager as Game.update left it.
start_new_round(sm, order) ==
    /\ round_number' = round_number + 1
    /\ current_tier' = TierOf(round_number')
    /\ order \in OrdersOf(current_tier')
    /\ current_order' = order
    /\ state' = BRIEFING
    /\ state_timer' = Seconds(BRIEFING_DURATION)
    /\ sound_manager' =
          IF sm = NoManager THEN sm
          ELSE LET briefing == play_state_music(sm, BRIEFING)
               IN  IF current_tier' = NIGHTMARE
                   THEN play_sound(briefing, "siren")
                   ELSE briefing

\* Game.start_action_phase; sequence: the draws of Decorator.set_difficulty.
start_action_phase(sequence) ==
    /\ state' = PLAYING
    /\ state_timer' = Seconds(current_order.time_limit)
    /\ builder' = Builder_set_difficulty(Builder_reset(builder),
                                         current_order.p1_decay_rate)
    /\ wrapper' = Wrapper_set_difficulty(Wrapper_reset(wrapper),
                                         current_order.p2_zone_size)
    /\ decorator' = Decorator_set_difficulty(Decorator_reset(decorator),
                                             current_order.p3_arrows, sequence)
    /\ foreman' = Foreman_set_difficulty(Foreman_reset(foreman), current_tier)
    /\ sound_manager' =
          IF sound_manager = NoManager THEN sound_manager
          ELSE play_sound(play_state_music(sound_manager, PLAYING), "whoosh")

\* Sum counting every True entry twice.
Sum_double(successes) ==
    2 * Cardinality({i \in 1..Len(successes) : successes[i]})

\* Sum taking the length of the list for the number of its True entries.
Sum_len(successes) == Len(successes)

\* sum(successes): the number of True entries.
Sum(successes) ==
    Cardinality({i \in 1..Len(successes) : successes[i]})

\* Game.end_action_phase, on the mechanics as this tick's updates left them.
\* Without an asset manager the call of get_sprite raises AttributeError:
\* the phase, the timer and the success flags are assigned by then, the
\* result, the score and the sounds are not.
end_action_phase(b, w, d, f) ==
    LET b2 == Builder_check_success(b)
        w2 == Wrapper_check_success(w)
        d2 == Decorator_check_success(d)
        f2 == Foreman_check_success(f)
        successes == << b2.success, w2.success, d2.success, f2.success >>
        round_score == Sum(successes)
    IN  /\ state' = REVEAL
        /\ state_timer' = Seconds(REVEAL_DURATION)
        /\ builder' = b2
        /\ wrapper' = w2
        /\ decorator' = d2
        /\ foreman' = f2
        /\ evaluated' = evaluated \o Evaluations
        /\ IF asset_manager = NoManager
           THEN /\ raised' = "AttributeError"
                /\ UNCHANGED << round_results, score, sound_manager >>
           ELSE /\ round_results' =
                      [toy |-> get_sprite(asset_manager, "toys",
                                  current_order.toy_asset,
                                  IF b2.success THEN "good" ELSE "bad"),
                       wrap |-> get_sprite(asset_manager, "wraps", "paper",
                                  IF w2.success THEN "good" ELSE "bad"),
                       bow |-> get_sprite(asset_manager, "bows", "ribbon",
                                  IF d2.success THEN "good" ELSE "bad"),
                       toy_name |-> current_order.name,
                       successes |-> successes]
                /\ score' = score + round_score
                /\ sound_manager' =
                      IF sound_manager = NoManager THEN sound_manager
                      ELSE LET reveal == play_state_music(
                                   stop_looping_sound(sound_manager, "countdown"),
                                   REVEAL)
                           IN  play_sound(reveal, OutcomeCue(round_score))
                /\ UNCHANGED raised

\* UpdateMenu starting the round without looking at the confirm event.
UpdateMenu_unprompted(pressed_confirm, order) ==
    /\ state = MENU
    /\ start_new_round(button_press, order)
    /\ UNCHANGED << score, round_results >>
    /\ UNCHANGED mechanics

\* Game.update, state == MENU
UpdateMenu(pressed_confirm, order) ==
    /\ state = MENU
    /\ IF pressed_confirm
       THEN /\ start_new_round(button_press, order)
            /\ UNCHANGED << score, round_results >>
       ELSE UNCHANGED game_vars
    /\ UNCHANGED mechanics

\* UpdateBriefing leaving Briefing only once the timer is below zero.
UpdateBriefing_strict(tick_dt, sequence) ==
    /\ state = BRIEFING
    /\ IF state_timer - tick_dt < 0
       THEN /\ start_action_phase(sequence)
            /\ UNCHANGED << current_order, current_tier, round_number, score,
                            round_results >>
       ELSE /\ state_timer' = state_timer - tick_dt
            /\ UNCHANGED << state, current_order, current_tier, round_number,
                            score, round_results, sound_manager >>
            /\ UNCHANGED mechanics

\* UpdateBriefing taking off the Playing timer the part of dt that the
\* Briefing timer did not use.
UpdateBriefing_carrying(tick_dt, sequence) ==
    /\ state = BRIEFING
    /\ IF state_timer - tick_dt <= 0
       THEN /\ state' = PLAYING
            /\ state_timer' = Seconds(current_order.time_limit)
                                  + (state_timer - tick_dt)
            /\ builder' = Builder_set_difficulty(Builder_reset(builder),
                                                 current_order.p1_decay_rate)
            /\ wrapper' = Wrapper_set_difficulty(Wrapper_reset(wrapper),
                                                 current_order.p2_zone_size)
            /\ decorator' = Decorator_set_difficulty(Decorator_reset(decorator),
                                                     current_order.p3_arrows, sequence)
            /\ foreman' = Foreman_set_difficulty(Foreman_reset(foreman), current_tier)
            /\ sound_manager' =
                  IF sound_manager = NoManager THEN sound_manager
                  ELSE play_sound(play_state_music(sound_manager, PLAYING), "whoosh")
            /\ UNCHANGED << current_order, current_tier, round_number, score,
                            round_results >>
       ELSE /\ state_timer' = state_timer - tick_dt
            /\ UNCHANGED << state, current_order, current_tier, round_number,
                            score, round_results, sound_manager >>
            /\ UNCHANGED mechanics

\* Game.update, state == BRIEFING
UpdateBriefing(tick_dt, sequence) ==
    /\ state = BRIEFING
    /\ IF state_timer - tick_dt <= 0
       THEN /\ start_action_phase(sequence)
            /\ UNCHANGED << current_order, current_tier, round_number, score,
                            round_results >>
       ELSE /\ state_timer' = state_timer - tick_dt
            /\ UNCHANGED << state, current_order, current_tier, round_number,
                            score, round_results, sound_manager >>
            /\ UNCHANGED mechanics

\* UpdatePlaying handling a tick only while the timer is still above zero.
UpdatePlaying_guarded(tick_dt, p1_any, p2_pressed, arrows_pressed, u, p4_left, p4_right) ==
    /\ state = PLAYING
    /\ state_timer > 0
    /\ LET b == Builder_update(builder, tick_dt, p1_any)
           w == Wrapper_update(wrapper, tick_dt, p2_pressed)
           d == Decorator_update(decorator, arrows_pressed)
           f == Foreman_update(foreman, tick_dt, u, p4_left, p4_right)
       IN  IF state_timer - tick_dt <= 0
           THEN /\ end_action_phase(b, w, d, f)
                /\ UNCHANGED << current_order, current_tier, round_number >>
           ELSE /\ state_timer' = state_timer - tick_dt
                /\ sound_manager' =
                      IF /\ sound_manager # NoManager
                         /\ state_timer' <= Seconds(5)
                         /\ "countdown" \notin sound_manager.sfx_channels
                      THEN play_looping_sound(sound_manager, "countdown")
                      ELSE sound_manager
                /\ builder' = b
                /\ wrapper' = w
                /\ decorator' = d
                /\ foreman' = f
                /\ UNCHANGED << state, current_order, current_tier,
                                round_number, score, round_results, raised, evaluated >>

\* UpdatePlaying evaluating, on the tick that ends the phase, the mechanics
\* as the tick before left them.
UpdatePlaying_stale(tick_dt, p1_any, p2_pressed, arrows_pressed, u, p4_left, p4_right) ==
    /\ state = PLAYING
    /\ LET b == Builder_update(builder, tick_dt, p1_any)
           w == Wrapper_update(wrapper, tick_dt, p2_pressed)
           d == Decorator_update(decorator, arrows_pressed)
           f == Foreman_update(foreman, tick_dt, u, p4_left, p4_right)
       IN  IF state_timer - tick_dt <= 0
           THEN /\ end_action_phase(builder, wrapper, decorator, foreman)
                /\ UNCHANGED << current_order, current_tier, round_number >>
           ELSE /\ state_timer' = state_timer - tick_dt
                /\ sound_manager' =
                      IF /\ sound_manager # NoManager
                         /\ state_timer' <= Seconds(5)
                         /\ "countdown" \notin sound_manager.sfx_channels
                      THEN play_looping_sound(sound_manager, "countdown")
                      ELSE sound_manager
                /\ builder' = b
                /\ wrapper' = w
                /\ decorator' = d
                /\ foreman' = f
                /\ UNCHANGED << state, current_order, current_tier,
                                round_number, score, round_results, raised, evaluated >>

\* Game.update, state == PLAYING.  The countdown loop is started on a tick
\* that leaves the timer within (0, 5] seconds, so never on the tick that
\* ends the phase.
UpdatePlaying(tick_dt, p1_any, p2_pressed, arrows_pressed, u, p4_left, p4_right) ==
    /\ state = PLAYING
    /\ LET b == Builder_update(builder, tick_dt, p1_any)
           w == Wrapper_update(wrapper, tick_dt, p2_pressed)
           d == Decorator_update(decorator, arrows_pressed)
           f == Foreman_update(foreman, tick_dt, u, p4_left, p4_right)
       IN  IF state_timer - tick_dt <= 0
           THEN /\ end_action_phase(b, w, d, f)
                /\ UNCHANGED << current_order, current_tier, round_number >>
           ELSE /\ state_timer' = state_timer - tick_dt
                /\ sound_manager' =
                      IF /\ sound_manager # NoManager
                         /\ state_timer' <= Seconds(5)
                         /\ "countdown" \notin sound_manager.sfx_channels
                      THEN play_looping_sound(sound_manager, "countdown")
                      ELSE sound_manager
                /\ builder' = b
                /\ wrapper' = w
                /\ decorator' = d
                /\ foreman' = f
                /\ UNCHANGED << state, current_order, current_tier,
                                round_number, score, round_results, raised, evaluated >>

\* UpdateReveal accepting the confirm event while the timer is running.
UpdateReveal_early(tick_dt, pressed_confirm, order) ==
    /\ state = REVEAL
    /\ IF pressed_confirm
       THEN /\ start_new_round(button_press, order)
            /\ UNCHANGED << score, round_results >>
       ELSE /\ state_timer' = state_timer - tick_dt
            /\ UNCHANGED << state, current_order, current_tier, round_number,
                            score, round_results, sound_manager >>
    /\ UNCHANGED mechanics

\* UpdateReveal resetting the mechanics when it starts the next round.
UpdateReveal_resetting(tick_dt, pressed_confirm, order) ==
    /\ state = REVEAL
    /\ IF state_timer - tick_dt <= 0 /\ pressed_confirm
       THEN /\ start_new_round(button_press, order)
            /\ builder' = Builder_reset(builder)
            /\ wrapper' = Wrapper_reset(wrapper)
            /\ decorator' = Decorator_reset(decorator)
            /\ foreman' = Foreman_reset(foreman)
            /\ UNCHANGED << score, round_results >>
       ELSE /\ state_timer' = state_timer - tick_dt
            /\ UNCHANGED << state, current_order, current_tier, round_number,
                            score, round_results, sound_manager >>
            /\ UNCHANGED mechanics

\* UpdateReveal going back to the menu when the reveal is confirmed.
UpdateReveal_to_menu(tick_dt, pressed_confirm, order) ==
    /\ state = REVEAL
    /\ IF state_timer - tick_dt <= 0 /\ pressed_confirm
       THEN /\ state' = MENU
            /\ state_timer' = 0
            /\ UNCHANGED << current_order, current_tier, round_number, score,
                            round_results, sound_manager >>
       ELSE /\ state_timer' = state_timer - tick_dt
            /\ UNCHANGED << state, current_order, current_tier, round_number,
                            score, round_results, sound_manager >>
    /\ UNCHANGED mechanics

\* Game.update, state == REVEAL
UpdateReveal(tick_dt, pressed_confirm, order) ==
    /\ state = REVEAL
    /\ IF state_timer - tick_dt <= 0 /\ pressed_confirm
       THEN /\ start_new_round(button_press, order)
            /\ UNCHANGED << score, round_results >>
       ELSE /\ state_timer' = state_timer - tick_dt
            /\ UNCHANGED << state, current_order, current_tier, round_number,
                            score, round_results, sound_manager >>
    /\ UNCHANGED mechanics

(***************************************************************************)
(* The ticks of main()'s loop: clock.tick, input_manager.update,           *)
(* game.update(dt, input_manager).  One action per phase handling the      *)
(* tick; each takes from the input snapshot what Game.update reads in that *)
(* phase.  An exception raised in Game.update leaves main(): no tick       *)
(* follows it.                                                             *)
(***************************************************************************)
\* What a tick delivers to a mechanic that is not varied in this run: no
\* key touched, drift draw 0.  Where live holds 0 the players touch no key
\* and the drift draws vary.
P1Inputs == IF 1 \in live THEN BOOLEAN ELSE {FALSE}
P2Inputs == IF 2 \in live THEN BOOLEAN ELSE {FALSE}
P4Inputs == IF 4 \in live THEN BOOLEAN ELSE {FALSE}
P4Draws  == IF live \cap {0, 4} # {} THEN DriftDraws ELSE {0}

\* The arrow sequence drawn in the runs of the whole game, and the arrows a
\* tick of those runs delivers: nothing, the expected arrow, a wrong arrow,
\* the expected arrow together with a wrong one.  Decorator.update only tests
\* whether the expected arrow is among the pressed ones and whether any arrow
\* is pressed, so every other sequence of the same length, under every
\* subset of the four directions, gives the same behaviours of every
\* variable but arrow_sequence itself.  SpecDecorator draws all of them.
GameSequences(arrow_count) == {[i \in 1..arrow_count |-> "UP"]}
P3Inputs == IF 3 \in live THEN SUBSET {"UP", "DOWN"} ELSE {{}}

\* The orders random.choice can return in the round about to start.
NextOrders == OrdersOf(TierOf(round_number + 1))

\* A run starts at most max_round rounds: no confirm arrives that would
\* start another.
MayConfirm == IF round_number < max_round THEN BOOLEAN ELSE {FALSE}

TickMenu ==
    \E pressed_confirm \in MayConfirm, order \in NextOrders :
        /\ raised = None
        /\ UpdateMenu(pressed_confirm, order)
        /\ dt' = 0
        /\ confirm' = pressed_confirm
        /\ elapsed' = 0
        /\ UNCHANGED << keys_pressed, calls, live, max_round, input_manager, events,
                        orders, asset_manager, raised, evaluated >>

TickBriefing ==
    /\ state = BRIEFING
    /\ \E tick_dt \in DtValues,
          sequence \in GameSequences(current_order.p3_arrows) :
        /\ raised = None
        /\ UpdateBriefing(tick_dt, sequence)
        /\ dt' = tick_dt
        /\ confirm' = FALSE
        /\ elapsed' = IF state' = state THEN elapsed + tick_dt ELSE 0
        /\ UNCHANGED << keys_pressed, calls, live, max_round, input_manager, events,
                        orders, asset_manager, raised, evaluated >>

TickPlaying ==
    \E tick_dt \in DtValues, p1_any \in P1Inputs, p2_pressed \in P2Inputs,
       arrows_pressed \in P3Inputs, u \in P4Draws,
       p4_left \in P4Inputs, p4_right \in P4Inputs :
        /\ raised = None
        /\ UpdatePlaying(tick_dt, p1_any, p2_pressed, arrows_pressed,
                         u, p4_left, p4_right)
        /\ dt' = 0
        /\ confirm' = FALSE
        /\ elapsed' = IF state' = state THEN elapsed + tick_dt ELSE 0
        /\ UNCHANGED << keys_pressed, calls, live, max_round, input_manager, events,
                        orders, asset_manager >>

\* Ticks stop arriving in Reveal once the timer is MaxLinger below zero.
TickReveal ==
    \E tick_dt \in DtValues, pressed_confirm \in MayConfirm,
       order \in NextOrders :
        /\ state_timer > -MaxLinger
        /\ raised = None
        /\ UpdateReveal(tick_dt, pressed_confirm, order)
        /\ dt' = tick_dt
        /\ confirm' = pressed_confirm
        /\ elapsed' = IF state' = state THEN elapsed + tick_dt ELSE 0
        /\ UNCHANGED << keys_pressed, calls, live, max_round, input_manager, events,
                        orders, asset_manager, raised, evaluated >>

Next == TickMenu \/ TickBriefing \/ TickPlaying \/ TickReveal

\* A whole session of MaxRound rounds in which no mechanic is varied.
InitSession == GameInit /\ live = {} /\ max_round = MaxRound
SpecSession == InitSession /\ [][Next]_vars

\* The first PlayRounds rounds with the mechanics of one of LiveSets varied
\* (one round fewer when it is the Foreman, whose draws and two controls
\* give by far the most behaviours).
InitPlay ==
    /\ GameInit
    /\ live \in LiveSets
    /\ max_round = IF live = {4} THEN PlayRounds - 1 ELSE PlayRounds
SpecPlay == InitPlay /\ [][Next]_vars

\* The four mechanics, as the rounds played so far left them, configured
\* from any order of the catalog, reset and evaluated at once, with no update
\* in between; a: the direction every draw of Decorator.set_difficulty gave.
RoundTrip ==
    \E tier \in {EASY, STANDARD, NIGHTMARE} :
        \E order \in OrdersOf(tier), a \in ARROW_DIRECTIONS :
            /\ state = REVEAL
            /\ elapsed = 0
            /\ raised = None
            /\ calls = 0
            /\ builder' = Builder_check_success(Builder_reset(
                   Builder_set_difficulty(builder, order.p1_decay_rate)))
            /\ wrapper' = Wrapper_check_success(Wrapper_reset(
                   Wrapper_set_difficulty(wrapper, order.p2_zone_size)))
            /\ decorator' = Decorator_check_success(Decorator_reset(
                   Decorator_set_difficulty(decorator, order.p3_arrows,
                       [i \in 1..order.p3_arrows |-> a])))
            /\ foreman' = Foreman_check_success(Foreman_reset(
                   Foreman_set_difficulty(foreman, tier)))
            /\ calls' = 1
            /\ UNCHANGED << game_vars, asset_manager, orders, raised, evaluated, dt,
                            confirm, elapsed, keys_pressed, live, max_round, input_manager, events >>

\* The rounds before the last of PlayRounds, with the Builder, the Wrapper or
\* the Decorator varied, and one round trip made as a Reveal is entered.
NextRoundTrip == Next \/ RoundTrip
InitRoundTrip ==
    /\ GameInit
    /\ live \in {{1}, {2}, {3}}
    /\ max_round = PlayRounds - 1
SpecRoundTrip == InitRoundTrip /\ [][NextRoundTrip]_vars

\* The first PlayRounds rounds with no key ever touched and every drift draw.
InitIdle == GameInit /\ live = {0} /\ max_round = PlayRounds
SpecIdle == InitIdle /\ [][Next]_vars

(***************************************************************************)
(* Order databases outside the range of config.py's: every combination of  *)
(* a time limit of EdgeTimeLimits (seconds) and an arrow count of          *)
(* EdgeArrowCounts, with the other fields of the first Easy order.         *)
(***************************************************************************)
EdgeTimeLimits == << -1, 0, 1, 2 >>
EdgeArrowCounts == << 0, 1, 2 >>

EdgeOrder(i) ==
    LET n == Len(EdgeArrowCounts)
    IN  [ORDERS[EASY][1] EXCEPT
            !.name = "Edge",
            !.time_limit = EdgeTimeLimits[((i - 1) \div n) + 1],
            !.p3_arrows = EdgeArrowCounts[((i - 1) % n) + 1]]

EdgeORDERS ==
    [tier \in {EASY, STANDARD, NIGHTMARE} |->
        [i \in 1..(Len(EdgeTimeLimits) * Len(EdgeArrowCounts)) |-> EdgeOrder(i)]]

\* The rounds before the last of PlayRounds on the edge orders, without input
\* or with the Decorator's; the main loop keeps ticking, so a Briefing or
\* Playing tick that can be taken is eventually taken.
InitEdge ==
    /\ Game_init(AssetManager_init(TRUE), SoundManager_init(TRUE))
    /\ orders = EdgeORDERS
    /\ live \in {{}, {3}}
    /\ max_round = PlayRounds - 1
SpecEdge ==
    InitEdge /\ [][Next]_vars /\ WF_vars(TickBriefing) /\ WF_vars(TickPlaying)

\* Rounds of one and of two seconds (one arrow, two arrows) with each
\* mechanic varied in turn.
ShortORDERS ==
    [tier \in {EASY, STANDARD, NIGHTMARE} |-> << EdgeOrder(8), EdgeOrder(12) >>]

InitShort ==
    /\ Game_init(AssetManager_init(TRUE), SoundManager_init(TRUE))
    /\ orders = ShortORDERS
    /\ live \in LiveSets
    /\ max_round = PlayRounds - 1
SpecShort == InitShort /\ [][Next]_vars

(***************************************************************************)
(* One round on the short orders with the dt and the input of every        *)
(* Playing tick kept in dt and keys_pressed.                               *)
(***************************************************************************)
\* What the input manager reports to the four mechanics in a tick.
KeysOf(p1_any, p2_pressed, arrows_pressed, p4_left, p4_right) ==
    (IF p1_any THEN {"P1"} ELSE {})
    \cup (IF p2_pressed THEN {"P2"} ELSE {})
    \cup arrows_pressed
    \cup (IF p4_left THEN {"P4_LEFT"} ELSE {})
    \cup (IF p4_right THEN {"P4_RIGHT"} ELSE {})

TickPlayingLogged ==
    \E tick_dt \in DtValues, p1_any \in P1Inputs, p2_pressed \in P2Inputs,
       arrows_pressed \in P3Inputs, u \in P4Draws,
       p4_left \in P4Inputs, p4_right \in P4Inputs :
        /\ raised = None
        /\ UpdatePlaying(tick_dt, p1_any, p2_pressed, arrows_pressed,
                         u, p4_left, p4_right)
        /\ dt' = tick_dt
        /\ keys_pressed' = KeysOf(p1_any, p2_pressed, arrows_pressed,
                                  p4_left, p4_right)
        /\ confirm' = FALSE
        /\ elapsed' = IF state' = state THEN elapsed + tick_dt ELSE 0
        /\ UNCHANGED << calls, live, max_round, input_manager, events,
                        orders, asset_manager >>

NextLogged == TickMenu \/ TickBriefing \/ TickPlayingLogged \/ TickReveal
InitLogged ==
    /\ Game_init(AssetManager_init(TRUE), SoundManager_init(TRUE))
    /\ orders = ShortORDERS
    /\ live \in LiveSets
    /\ max_round = PlayRounds - 1
SpecLogged == InitLogged /\ [][NextLogged]_vars

(***************************************************************************)
(* Rounds of the catalog without player input, in which the MUTE key may   *)
(* be pressed before any tick: main() toggles the mute before it calls     *)
(* Game.update.                                                            *)
(***************************************************************************)
ToggleMute ==
    /\ raised = None
    /\ sound_manager # NoManager
    /\ sound_manager' = toggle_mute(sound_manager)
    /\ UNCHANGED << state, current_order, current_tier, round_number, score,
                    state_timer, round_results, mechanics, asset_manager,
                    orders, raised, evaluated, dt, confirm, elapsed, keys_pressed, calls,
                    live, max_round, input_manager, events >>

NextMute == Next \/ ToggleMute
InitMute == GameInit /\ live = {} /\ max_round = PlayRounds - 1
SpecMute == InitMute /\ [][NextMute]_vars

(***************************************************************************)
(* One-second rounds on orders that decide the Builder's and the           *)
(* Decorator's result without input (decay rate 0 or 0.3: the bar stays at *)
(* the line or falls below; no arrow or one: completed at once or never),  *)
(* with a zone as wide as the bar, played by the Wrapper or the Foreman.   *)
(* Round scores from 0 to 4 all occur.                                     *)
(***************************************************************************)
CueORDERS ==
    [tier \in {EASY, STANDARD, NIGHTMARE} |->
        << Order("Still", 0, 1, 0, 1000, "socks"),
           Order("Arrow", 1, 1, 0, 1000, "socks"),
           Order("Decay", 0, 1, 300, 1000, "socks"),
           Order("Both", 1, 1, 300, 1000, "socks") >>]

InitCues ==
    /\ Game_init(AssetManager_init(TRUE), SoundManager_init(TRUE))
    /\ orders = CueORDERS
    /\ live \in {{2}, {4}}
    /\ max_round = PlayRounds
SpecCues == InitCues /\ [][Next]_vars

(***************************************************************************)
(* Games built with every combination of collaborators: no manager given,  *)
(* a manager that finds none of its files, a manager that loaded them all. *)
(***************************************************************************)
AssetManagers == {NoManager, AssetManager_init(FALSE), AssetManager_init(TRUE)}
SoundManagers == {NoManager, SoundManager_init(FALSE), SoundManager_init(TRUE)}

InitBare ==
    /\ \E am \in AssetManagers, sm \in SoundManagers : Game_init(am, sm)
    /\ orders = ORDERS
    /\ live = {}
    /\ max_round = PlayRounds
SpecBare == InitBare /\ [][Next]_vars

(***************************************************************************)
(* The Decorator on its own, in rounds: reset and set_difficulty as        *)
(* start_action_phase calls them, for every sequence of up to MaxLen       *)
(* arrows, then MaxLen + 2 update calls with every set of pressed arrows.  *)
(***************************************************************************)
RoundCalls == MaxLen + 2

DecoratorConfigure ==
    \E arrow_count \in 0..MaxLen :
        \E sequence \in AllSequences(arrow_count) :
            /\ calls \in {0, RoundCalls}
            /\ decorator' = Decorator_set_difficulty(Decorator_reset(decorator),
                                                     arrow_count, sequence)
            /\ keys_pressed' = {}
            /\ calls' = 0
            /\ UNCHANGED << game_vars, builder, wrapper, foreman, dt, confirm,
                            elapsed, live, max_round, input_manager, events, orders, asset_manager,
                            raised, evaluated >>

DecoratorUpdate ==
    \E arrows_pressed \in SUBSET ARROW_DIRECTIONS :
        /\ calls < RoundCalls
        /\ decorator' = Decorator_update(decorator, arrows_pressed)
        /\ keys_pressed' = arrows_pressed
        /\ calls' = calls + 1
        /\ UNCHANGED << game_vars, builder, wrapper, foreman, dt, confirm,
                        elapsed, live, max_round, input_manager, events, orders, asset_manager,
                        raised, evaluated >>

NextDecorator == DecoratorConfigure \/ DecoratorUpdate
InitDecorator == GameInit /\ live = {3} /\ max_round = 0
SpecDecorator == InitDecorator /\ [][NextDecorator]_vars

(***************************************************************************)
(* The InputManager alone, fed every batch of at most MaxEvents events on  *)
(* the keys below: a key of a one-key action, the two keys of one action,  *)
(* a key of two actions.                                                   *)
(***************************************************************************)
EventKeys == {"K_SPACE", "K_KP4", "K_LEFTBRACKET", "K_ESCAPE"}
Events == [type : {KEYDOWN, KEYUP}, key : EventKeys]
Batches == UNION {[1..n -> Events] : n \in 0..MaxEvents}

TickInput ==
    \E batch \in Batches :
        /\ events' = batch
        /\ input_manager' = InputManager_update(input_manager, batch)
        /\ UNCHANGED << game_vars, mechanics, asset_manager, orders, raised, evaluated,
                        dt, confirm, elapsed, keys_pressed, calls, live,
                        max_round >>

InitInput == GameInit /\ live = {} /\ max_round = 0
SpecInput == InitInput /\ [][TickInput]_vars

(***************************************************************************)
(* Builder, Wrapper and Foreman each on its own: the object is configured  *)
(* with values drawn from the sets below, then receives UnitCalls calls of *)
(* update and check_success in any order, with every dt, input and draw.   *)
(***************************************************************************)
UnitSets == {{1}, {2}, {4}}

\* Decay rates: none, one below Builder's fill rate, an Easy one, Nightmare's
\* largest.
DecayRates == {0, 100, 300, 1800}
\* Zone sizes up to the whole bar, and the positions a press is latched at.
ZoneSizes == {50, 100, 300, 1000}
PressPositions == {25 * k : k \in 0..40}
\* Drift multipliers: none, and those of ForemanSettings.
DriftMultipliers ==
    {0, EASY_DRIFT_MULTIPLIER, STANDARD_DRIFT_MULTIPLIER,
     NIGHTMARE_DRIFT_MULTIPLIER}

\* What a step of SpecUnits leaves alone besides the two other mechanics.
UnitFrame ==
    UNCHANGED << game_vars, decorator, confirm, elapsed, live, max_round, input_manager, events,
                 orders, asset_manager, raised, evaluated >>

BuilderConfigure ==
    \E decay_rate \in DecayRates :
        /\ live = {1}
        /\ calls \in {0, UnitCalls}
        /\ builder' = Builder_set_difficulty(Builder_reset(builder), decay_rate)
        /\ calls' = 0
        /\ dt' = 0
        /\ keys_pressed' = {}
        /\ UNCHANGED << wrapper, foreman >>
        /\ UnitFrame

BuilderUpdate ==
    \E tick_dt \in DtValues, any \in BOOLEAN :
        /\ live = {1}
        /\ calls < UnitCalls
        /\ builder' = Builder_update(builder, tick_dt, any)
        /\ calls' = calls + 1
        /\ dt' = tick_dt
        /\ keys_pressed' = IF any THEN {"P1"} ELSE {}
        /\ UNCHANGED << wrapper, foreman >>
        /\ UnitFrame

BuilderCheck ==
    /\ live = {1}
    /\ calls < UnitCalls
    /\ builder' = Builder_check_success(builder)
    /\ calls' = calls + 1
    /\ dt' = 0
    /\ UNCHANGED << keys_pressed, wrapper, foreman >>
    /\ UnitFrame

\* A reset Wrapper with its zone set, either before any update or as an
\* update left it when it latched a press at position p.
WrapperConfigure ==
    \E zone_size \in ZoneSizes, press \in {<< >>} \cup {<< p >> : p \in PressPositions} :
        /\ live = {2}
        /\ calls \in {0, UnitCalls}
        /\ LET w == Wrapper_set_difficulty(Wrapper_reset(wrapper), zone_size)
           IN  wrapper' = IF press = << >> THEN w
                          ELSE [w EXCEPT !.cursor_position = press[1],
                                         !.has_pressed = TRUE,
                                         !.press_position = press]
        /\ calls' = 0
        /\ dt' = 0
        /\ keys_pressed' = {}
        /\ UNCHANGED << builder, foreman >>
        /\ UnitFrame

WrapperUpdate ==
    \E tick_dt \in DtValues, pressed \in BOOLEAN :
        /\ live = {2}
        /\ calls < UnitCalls
        /\ wrapper' = Wrapper_update(wrapper, tick_dt, pressed)
        /\ calls' = calls + 1
        /\ dt' = tick_dt
        /\ keys_pressed' = IF pressed THEN {"P2"} ELSE {}
        /\ UNCHANGED << builder, foreman >>
        /\ UnitFrame

WrapperCheck ==
    /\ live = {2}
    /\ calls < UnitCalls
    /\ wrapper' = Wrapper_check_success(wrapper)
    /\ calls' = calls + 1
    /\ dt' = 0
    /\ UNCHANGED << keys_pressed, builder, foreman >>
    /\ UnitFrame

\* A reset Foreman whose drift_multiplier is one of DriftMultipliers.
ForemanConfigure ==
    \E multiplier \in DriftMultipliers :
        /\ live = {4}
        /\ calls \in {0, UnitCalls}
        /\ foreman' = [Foreman_reset(foreman) EXCEPT
                            !.drift_multiplier = multiplier]
        /\ calls' = 0
        /\ dt' = 0
        /\ keys_pressed' = {}
        /\ UNCHANGED << builder, wrapper >>
        /\ UnitFrame

ForemanUpdate ==
    \E tick_dt \in DtValues, u \in DriftDraws, held \in SUBSET {"LEFT", "RIGHT"} :
        /\ live = {4}
        /\ calls < UnitCalls
        /\ foreman' = Foreman_update(foreman, tick_dt, u,
                                     "LEFT" \in held, "RIGHT" \in held)
        /\ calls' = calls + 1
        /\ dt' = tick_dt
        /\ keys_pressed' = held
        /\ UNCHANGED << builder, wrapper >>
        /\ UnitFrame

ForemanCheck ==
    /\ live = {4}
    /\ calls < UnitCalls
    /\ foreman' = Foreman_check_success(foreman)
    /\ calls' = calls + 1
    /\ dt' = 0
    /\ UNCHANGED << keys_pressed, builder, wrapper >>
    /\ UnitFrame

NextUnits ==
    \/ BuilderConfigure \/ BuilderUpdate \/ BuilderCheck
    \/ WrapperConfigure \/ WrapperUpdate \/ WrapperCheck
    \/ ForemanConfigure \/ ForemanUpdate \/ ForemanCheck
InitUnits == GameInit /\ live \in UnitSets /\ max_round = 0
SpecUnits == InitUnits /\ [][NextUnits]_vars

(***************************************************************************)
(* The Foreman on its own, its arithmetic in floating point: a Foreman as  *)
(* constructed, reset and given a tier's multiplier, then updated up to    *)
(* UnitCalls times with drawn dt, draw and controls.                       *)
(***************************************************************************)
\* The floats of the dt values and of the draws of random.uniform(-1, 1).
FloatDt(tick_dt) == Float(tick_dt, 2)
FloatDraws == {Float(-1, 1), Float(-1, 3), 0, Float(1, 3), Float(1, 1)}
FloatMultipliers ==
    {Float(EASY_DRIFT_MULTIPLIER, 10), Float(STANDARD_DRIFT_MULTIPLIER, 10),
     Float(NIGHTMARE_DRIFT_MULTIPLIER, 10)}

FloatFrame ==
    UNCHANGED << game_vars, builder, wrapper, decorator, confirm, elapsed,
                 live, max_round, input_manager, events, orders,
                 asset_manager, raised, evaluated >>

ForemanFloatConfigure ==
    \E multiplier \in FloatMultipliers :
        /\ calls \in {0, UnitCalls}
        /\ foreman' = [Foreman_reset_float(foreman) EXCEPT
                            !.drift_multiplier = multiplier]
        /\ calls' = 0
        /\ dt' = 0
        /\ keys_pressed' = {}
        /\ FloatFrame

ForemanFloatUpdate ==
    \E tick_dt \in DtValues, u \in FloatDraws, held \in SUBSET {"LEFT", "RIGHT"} :
        /\ calls < UnitCalls
        /\ foreman' = Foreman_update_float(foreman, FloatDt(tick_dt), u,
                                           "LEFT" \in held, "RIGHT" \in held)
        /\ calls' = calls + 1
        /\ dt' = tick_dt
        /\ keys_pressed' = held
        /\ FloatFrame

NextFloat == ForemanFloatConfigure \/ ForemanFloatUpdate
InitFloat ==
    /\ state = MENU
    /\ current_order = NoOrder
    /\ current_tier = NoTier
    /\ round_number = 0
    /\ score = 0
    /\ asset_manager = AssetManager_init(TRUE)
    /\ sound_manager = play_state_music(SoundManager_init(TRUE), MENU)
    /\ state_timer = 0
    /\ builder = Builder_init
    /\ wrapper = Wrapper_init
    /\ decorator = Decorator_init
    /\ foreman = Foreman_init_float
    /\ round_results = [toy |-> NoSprite, wrap |-> NoSprite, bow |-> NoSprite]
    /\ raised = None
    /\ evaluated = << >>
    /\ dt = 0
    /\ confirm = FALSE
    /\ elapsed = 0
    /\ keys_pressed = {}
    /\ calls = 0
    /\ input_manager = InputManager_init
    /\ events = << >>
    /\ orders = ORDERS
    /\ live = {4}
    /\ max_round = 0
SpecFloat == InitFloat /\ [][NextFloat]_vars

(***************************************************************************)
(* Properties of the round state machine                                   *)
(***************************************************************************)
Count(flag) == IF flag THEN 1 ELSE 0

PhaseEdges ==
    { << MENU, BRIEFING >>, << BRIEFING, PLAYING >>,
      << PLAYING, REVEAL >>, << REVEAL, BRIEFING >> }

\* C1: the session starts in Menu, and every phase change made by
\* Game.update is Menu->Briefing, Briefing->Playing, Playing->Reveal or
\* Reveal->Briefing: Menu is never entered again and GAME_OVER is never
\* reached.
C1_PhaseChanges ==
    /\ state = MENU
    /\ [][ /\ state' \in {MENU, BRIEFING, PLAYING, REVEAL}
           /\ state' # state => << state, state' >> \in PhaseEdges ]_vars

\* C1 witness: a second round's Briefing, entered from Reveal.
C1_Witness == state = BRIEFING /\ round_number = 2

\* C2: in every round the tier is the one of the round number (1..3 Easy,
\* 4..7 Standard, 8 and up Nightmare) and the selected order is one of that
\* tier's order list.
C2_TierByRound ==
    round_number >= 1 =>
        /\ round_number \in 1..3 => current_tier = EASY
        /\ round_number \in 4..7 => current_tier = STANDARD
        /\ round_number >= 8 => current_tier = NIGHTMARE
        /\ \E i \in 1..Len(ORDERS[current_tier]) :
               current_order = ORDERS[current_tier][i]

\* C2 witness: round 8, the first Nightmare round.
C2_Witness == round_number = 8 /\ current_tier = NIGHTMARE

\* C3: on Playing->Reveal the result holds four booleans in the order
\* Builder, Wrapper, Decorator, Foreman, each the mechanic's success test on
\* its final state; the round score is the number of true ones, the
\* cumulative score grows by it, and the timer is the reveal duration.
C3_RoundResult ==
    [][ (state = PLAYING /\ state' = REVEAL) =>
          LET r == round_results'.successes
              n == Count(r[1]) + Count(r[2]) + Count(r[3]) + Count(r[4])
          IN  /\ Len(r) = 4
              /\ r[1] = (builder'.quality_bar >= 500)
              /\ r[2] = /\ wrapper'.press_position # << >>
                        /\ Abs(wrapper'.press_position[1] * 2 - ONE)
                              <= wrapper'.zone_size
              /\ r[3] = decorator'.completed
              /\ r[4] = (Abs(foreman'.needle_position - 500) < 300)
              /\ r = << builder'.success, wrapper'.success,
                        decorator'.success, foreman'.success >>
              /\ n \in 0..4
              /\ score' = score + n
              /\ state_timer' = Seconds(REVEAL_DURATION) ]_vars

\* C3 witness: the second round's Reveal just entered with Decorator and
\* Foreman successful and Builder and Wrapper not, after a first round that
\* scored 1.
C3_Witness ==
    /\ state = REVEAL
    /\ elapsed = 0
    /\ round_number = 2
    /\ round_results.successes = << FALSE, FALSE, TRUE, TRUE >>
    /\ score = 3

\* C4: a Briefing tick takes dt off the timer; the first tick that brings it
\* to zero or below enters Playing, with no input, and sets the timer to the
\* order's time_limit whatever the overshoot.
C4_BriefingCountdown ==
    [][ state = BRIEFING =>
          IF state_timer - dt' <= 0
          THEN /\ state' = PLAYING
               /\ state_timer' = Seconds(current_order.time_limit)
          ELSE state' = BRIEFING /\ state_timer' = state_timer - dt' ]_vars

\* C4 witness: Playing entered by a tick far longer than the briefing.
C4_Witness ==
    /\ state = PLAYING
    /\ dt = BigDt
    /\ state_timer = Seconds(current_order.time_limit)

\* C5: a Reveal tick starts the next round exactly when its own decrement
\* leaves the timer at zero or below and a confirm is delivered in that same
\* tick; any other tick, a confirm on a running timer included, only takes
\* dt off the timer; so at least the reveal duration has accumulated when
\* the next Briefing starts.
C5_RevealConfirm ==
    [][ state = REVEAL =>
          /\ state' = BRIEFING <=> (state_timer - dt' <= 0 /\ confirm')
          /\ state' # BRIEFING =>
                /\ state' = REVEAL
                /\ state_timer' = state_timer - dt'
                /\ UNCHANGED << current_order, current_tier, round_number,
                                score, round_results >>
          /\ state' = BRIEFING =>
                elapsed + dt' >= Seconds(REVEAL_DURATION) ]_vars

\* C5 witness: a confirm delivered while the reveal timer is running.
C5_Witness == state = REVEAL /\ confirm /\ state_timer > 0

\* C6: a Menu tick without confirm changes nothing; a Menu tick with
\* confirm increments the round number, selects an order, enters Briefing and
\* sets the timer to the briefing duration.
C6_Menu ==
    [][ state = MENU =>
          IF confirm'
          THEN /\ round_number' = round_number + 1
               /\ \E i \in 1..Len(ORDERS[current_tier']) :
                      current_order' = ORDERS[current_tier'][i]
               /\ state' = BRIEFING
               /\ state_timer' = Seconds(BRIEFING_DURATION)
               /\ UNCHANGED << score, round_results >>
          ELSE UNCHANGED << game_vars, mechanics >> ]_vars

\* C6 witness: round 1's Briefing, just entered by a confirm in the Menu.
C6_Witness ==
    /\ state = BRIEFING
    /\ round_number = 1
    /\ confirm
    /\ state_timer = Seconds(BRIEFING_DURATION)

\* C7: throughout Playing the mechanics hold the selected order's
\* parameters (decay rate, zone size, arrow count) and Foreman's multiplier
\* is 1.0, 1.5 or 2.5 by tier; the configuration is applied on top of the
\* reset, so Playing starts from the reset progress values.
C7_PlayingConfig ==
    state = PLAYING =>
        /\ builder.decay_rate = current_order.p1_decay_rate
        /\ wrapper.zone_size = current_order.p2_zone_size
        /\ Len(decorator.arrow_sequence) = current_order.p3_arrows
        /\ current_tier = EASY => foreman.drift_multiplier = 10
        /\ current_tier = STANDARD => foreman.drift_multiplier = 15
        /\ current_tier = NIGHTMARE => foreman.drift_multiplier = 25
        /\ elapsed = 0 =>
              /\ builder.quality_bar = 500
              /\ wrapper.cursor_position = 0 /\ ~wrapper.has_pressed
              /\ decorator.current_index = 0 /\ ~decorator.completed
              /\ foreman.needle_position = 500

\* C7 witness: Playing in a Nightmare round.
C7_Witness ==
    /\ state = PLAYING
    /\ current_tier = NIGHTMARE
    /\ foreman.drift_multiplier = 25
    /\ state_timer < Seconds(current_order.time_limit)

(***************************************************************************)
(* Properties of the Decorator                                             *)
(***************************************************************************)
\* C8: from a reset Decorator with a sequence of N >= 1 arrows, after
\* exactly N updates that each delivered the expected arrow the index is N
\* and completed and success are both true.  (The index grows by at most one
\* per update, so index N after N updates means that every one of them
\* delivered the expected arrow.)
C8_CompletedOnNthUpdate ==
    ( /\ Len(decorator.arrow_sequence) >= 1
      /\ calls = Len(decorator.arrow_sequence)
      /\ decorator.current_index = Len(decorator.arrow_sequence) )
    => decorator.completed /\ decorator.success

\* C9: an update of a Decorator that is not completed, with the index K
\* below the sequence length: the index becomes K + 1 when the expected arrow
\* is among those pressed, whatever else is pressed with it; otherwise 0 when
\* any arrow is pressed; otherwise it stays K.
C9_IndexStep ==
    [][ ( /\ calls' = calls + 1
          /\ ~decorator.completed
          /\ decorator.current_index < Len(decorator.arrow_sequence) ) =>
          LET K == decorator.current_index
              expected == decorator.arrow_sequence[K + 1]
          IN  decorator'.current_index =
                  IF expected \in keys_pressed' THEN K + 1
                  ELSE IF keys_pressed' # {} THEN 0
                  ELSE K ]_vars

\* C9 witness: the second arrow accepted in an update that delivered it
\* together with another direction.
C9_Witness ==
    /\ calls = 2
    /\ decorator.current_index = 2
    /\ Cardinality(keys_pressed) >= 2

\* C10 as stated: in every state of Playing the success flag of every
\* mechanic is false.
C10_NoSuccessInPlaying ==
    state = PLAYING =>
        /\ ~builder.success
        /\ ~wrapper.success
        /\ ~decorator.success
        /\ ~foreman.success

\* C10 amended: in every state of Playing the success flags of Builder,
\* Wrapper and Foreman are false; the Decorator's is false until its update
\* marks the sequence completed and true from then on.
C10_SuccessInPlaying ==
    state = PLAYING =>
        /\ ~builder.success
        /\ ~wrapper.success
        /\ ~foreman.success
        /\ decorator.success <=> decorator.completed

\* C10 witness: the second round's Playing with the arrow sequence completed
\* before the phase ends.
C10_Witness ==
    /\ state = PLAYING
    /\ round_number = 2
    /\ state_timer > 0
    /\ decorator.completed
    /\ decorator.success

(***************************************************************************)
(* Properties of the rounds' mechanics                                     *)
(***************************************************************************)
\* C11: when a Playing phase starts (after reset and configure) every
\* progress field of every mechanic has its first-round value: Builder's bar
\* 0.5, Wrapper's cursor at 0 travelling in its initial direction with no
\* press recorded, Decorator's index 0 and not completed, Foreman's needle
\* 0.5.
C11_FreshAtPlaying ==
    (state = PLAYING /\ elapsed = 0) =>
        /\ builder.quality_bar = 500
        /\ wrapper.cursor_position = 0
        /\ wrapper.cursor_direction = Wrapper_init.cursor_direction
        /\ ~wrapper.has_pressed
        /\ wrapper.press_position = << >>
        /\ decorator.current_index = 0
        /\ ~decorator.completed
        /\ foreman.needle_position = 500

(***************************************************************************)
(* Properties of rounds on orders outside the catalog's range              *)
(***************************************************************************)
\* C12: whatever the order's time limit (negative, zero or positive), with
\* ticks that keep arriving every Briefing is followed by Playing and every
\* Playing by Reveal with the round's result built, with or without input.
C12_RoundEnds ==
    /\ (state = BRIEFING) ~> (state = PLAYING)
    /\ (state = PLAYING) ~>
          ( /\ state = REVEAL
            /\ round_results.toy_name = current_order.name
            /\ Len(round_results.successes) = 4 )

\* C12 witness: Reveal just entered in a round whose time limit is negative,
\* with no input in the whole run.
C12_Witness ==
    /\ state = REVEAL
    /\ elapsed = 0
    /\ live = {}
    /\ current_order.time_limit < 0
    /\ Len(round_results.successes) = 4

\* C13: a round whose order has arrow count 0 ends with the Decorator
\* completed and successful and with Decorator success in its result,
\* whatever the input.
C13_EmptySequence ==
    (state = REVEAL /\ current_order.p3_arrows = 0) =>
        /\ decorator.completed
        /\ decorator.success
        /\ round_results.successes[3]

\* C13 witness: such a round evaluated in a run without any input.
C13_Witness ==
    /\ state = REVEAL
    /\ live = {}
    /\ current_order.p3_arrows = 0
    /\ decorator.arrow_sequence = << >>
    /\ round_results.successes[3]

(***************************************************************************)
(* Properties of rounds with absent collaborators                          *)
(***************************************************************************)
\* C14: whatever collaborators the Game was given (none, empty ones, loaded
\* ones), the tick that ends Playing completes: no exception leaves
\* Game.update, the result holds the round's four success booleans, and the
\* cumulative score grows by the number of true ones.
C14_RevealCompletes ==
    [][ (state = PLAYING /\ state' = REVEAL) =>
          /\ raised' = None
          /\ round_results'.toy_name = current_order.name
          /\ round_results'.successes =
                << builder'.success, wrapper'.success,
                   decorator'.success, foreman'.success >>
          /\ score' = score + Count(builder'.success) + Count(wrapper'.success)
                            + Count(decorator'.success) + Count(foreman'.success)
        ]_vars

\* C17: press_position is set exactly when has_pressed is true and then
\* equals cursor_position; once a press is recorded, has_pressed stays true
\* and press_position and cursor_position keep their values in every step
\* but the reset that starts the next Playing phase.
C17_Latch ==
    /\ [](wrapper.has_pressed <=> wrapper.press_position # << >>)
    /\ [](wrapper.has_pressed =>
              wrapper.press_position = << wrapper.cursor_position >>)
    /\ [][ (wrapper.has_pressed /\ ~(state = BRIEFING /\ state' = PLAYING)) =>
              /\ wrapper'.has_pressed
              /\ wrapper'.press_position = wrapper.press_position
              /\ wrapper'.cursor_position = wrapper.cursor_position ]_vars

\* C17 witness: a press latched at 0.4 by the first half-second tick of
\* Playing, unmoved by the updates of the second that followed.
C17_Witness ==
    /\ state = PLAYING
    /\ live = {2}
    /\ elapsed = 3
    /\ wrapper.has_pressed
    /\ wrapper.press_position = << 400 >>
    /\ wrapper.cursor_position = 400

\* C19: the Foreman's result of a round is decided by the needle position
\* the last tick of Playing leaves: true exactly when it is strictly closer
\* than 0.3 to 0.5, so 0.2 and 0.8 fail.
C19_FinalNeedle ==
    [][ (state = PLAYING /\ state' = REVEAL) =>
          LET n == foreman'.needle_position
          IN  /\ round_results'.successes[4] = (Abs(n - 500) < 300)
              /\ n \in {200, 800} => ~round_results'.successes[4]
              /\ foreman'.success = round_results'.successes[4] ]_vars

\* C19 witness: a round the Foreman played that ended with the needle at 0.8,
\* judged a failure.
C19_Witness ==
    /\ state = REVEAL
    /\ elapsed = 0
    /\ live = {4}
    /\ foreman.needle_position = 800
    /\ ~round_results.successes[4]

\* C20: a round with an Easy order in which no player input is delivered and
\* every dt is positive ends in Reveal with Builder, Wrapper and Decorator
\* all false, and adds 0 or 1 to the score, 1 exactly when the Foreman
\* succeeded.
C20_IdleEasyRound ==
    [][ (state = PLAYING /\ state' = REVEAL /\ current_tier = EASY) =>
          /\ ~round_results'.successes[1]
          /\ ~round_results'.successes[2]
          /\ ~round_results'.successes[3]
          /\ score' - score \in {0, 1}
          /\ score' - score = Count(round_results'.successes[4]) ]_vars

\* C20 witness: an idle first round that the drift made the Foreman lose
\* too, score 0.
C20_Witness ==
    /\ state = REVEAL
    /\ elapsed = 0
    /\ live = {0}
    /\ current_tier = EASY
    /\ round_number = 1
    /\ round_results.successes = << FALSE, FALSE, FALSE, FALSE >>
    /\ score = 0

\* C21: a mechanic configured from any catalog order, reset and evaluated at
\* once gives the same result whatever the earlier rounds left in it and
\* whatever was drawn: Builder true (0.5 >= 0.5), Wrapper false, Decorator
\* false, Foreman true.
C21_RoundTrip ==
    [][ calls' # calls =>
          /\ builder'.success
          /\ ~wrapper'.success
          /\ ~decorator'.success
          /\ foreman'.success ]_vars

\* C21 witness: a Builder that lost its round with the bar below the line,
\* configured from T-Rex, reset and found successful.
C21_Witness ==
    /\ state = REVEAL
    /\ live = {1}
    /\ calls = 1
    /\ ~round_results.successes[1]
    /\ builder.decay_rate = 1800
    /\ builder.quality_bar = 500
    /\ builder.success

\* C23: in a Playing tick the four update calls, made in any order, leave
\* each mechanic in the state that its own previous state, dt and its own
\* player's input (for the Foreman also its draw) determine, and so give
\* the same successes.
C23_AnyOrder ==
    state = PLAYING =>
        \A tick_dt \in DtValues, p1_any \in P1Inputs, p2_pressed \in P2Inputs,
           arrows_pressed \in P3Inputs, u \in P4Draws, next_u \in P4Draws,
           p4_left \in P4Inputs, p4_right \in P4Inputs :
            LET ms == [builder |-> builder, wrapper |-> wrapper,
                       decorator |-> decorator, foreman |-> foreman,
                       draws |-> << u, next_u >>]
                tick == [dt |-> tick_dt, p1_any |-> p1_any,
                         p2_pressed |-> p2_pressed,
                         arrows_pressed |-> arrows_pressed,
                         p4_left |-> p4_left, p4_right |-> p4_right]
                own == [builder |-> Builder_update(builder, tick_dt, p1_any),
                        wrapper |-> Wrapper_update(wrapper, tick_dt, p2_pressed),
                        decorator |-> Decorator_update(decorator, arrows_pressed),
                        foreman |-> Foreman_update(foreman, tick_dt, u,
                                                   p4_left, p4_right),
                        draws |-> << next_u >>]
            IN  \A order \in UpdateOrders :
                    LET updated == UpdateInOrder(order, ms, tick)
                    IN  /\ updated = own
                        /\ SuccessesOf(updated) = SuccessesOf(own)

\* C23 witness: a Playing tick with the Foreman off centre in which the
\* calls made in the reverse order move the needle as the draw and the
\* control say.
C23_Witness ==
    /\ state = PLAYING
    /\ live = {4}
    /\ foreman.needle_position = 350
    /\ LET ms == [builder |-> builder, wrapper |-> wrapper,
                  decorator |-> decorator, foreman |-> foreman,
                  draws |-> << 1, -1 >>]
           tick == [dt |-> 1, p1_any |-> FALSE, p2_pressed |-> FALSE,
                    arrows_pressed |-> {}, p4_left |-> FALSE,
                    p4_right |-> TRUE]
       IN  UpdateInOrder(<< 4, 3, 2, 1 >>, ms, tick).foreman.needle_position
              = 800

\* C26: a round in which the Decorator entered the last expected direction
\* of its sequence during Playing, be it on the tick that ended Playing, has
\* a result that records the Decorator's success.  (Reveal does not update
\* the Decorator, and the index falls back only by a reset or a wrong arrow
\* before the last one, so an index equal to the length in Reveal tells that
\* the last direction was entered.)
C26_LastArrowCounts ==
    ( /\ state = REVEAL
      /\ raised = None
      /\ Len(decorator.arrow_sequence) >= 1
      /\ decorator.current_index = Len(decorator.arrow_sequence) )
    => round_results.successes[3]

\* C27: check_success is called on the four mechanics, in the order Builder,
\* Wrapper, Decorator, Foreman, by the tick that takes Playing to Reveal, on
\* the mechanics as that tick's updates left them, and by no other tick: once
\* per round.
C27_EvaluatedOnce ==
    /\ [](Len(evaluated) =
              4 * (IF state \in {MENU, REVEAL} THEN round_number
                   ELSE round_number - 1))
    /\ [][ IF state = PLAYING /\ state' = REVEAL
           THEN /\ evaluated' = evaluated \o
                       << "builder", "wrapper", "decorator", "foreman" >>
                /\ builder'.success = (builder'.quality_bar >= 500)
                /\ wrapper'.success =
                       /\ wrapper'.has_pressed
                       /\ Abs(wrapper'.cursor_position * 2 - ONE)
                             <= wrapper'.zone_size
                /\ foreman'.success =
                       (Abs(foreman'.needle_position - 500) < 300)
           ELSE evaluated' = evaluated ]_vars

\* C27 witness: the second Reveal, after two evaluations of the four.
C27_Witness ==
    /\ state = REVEAL
    /\ round_number = 2
    /\ Len(evaluated) = 8
    /\ evaluated[5] = "builder"
    /\ evaluated[8] = "foreman"

\* C28: the result of a round is held from the tick that takes Playing to
\* Reveal until the next round starts: in Briefing and in Playing no result
\* is held (round_results is as Game.__init__ left it).
C28_NoResultHeld ==
    state \in {BRIEFING, PLAYING} =>
        round_results = [toy |-> NoSprite, wrap |-> NoSprite, bow |-> NoSprite]

\* C29: round_number grows by exactly 1 in every step that enters Briefing
\* and is unchanged by every other step; the score never decreases, changes
\* only in the steps from Playing to Reveal, and is at most 4 times the
\* number of rounds evaluated so far.
C29_Counters ==
    /\ [][ round_number' =
              IF state # BRIEFING /\ state' = BRIEFING
              THEN round_number + 1 ELSE round_number ]_vars
    /\ [][ /\ score' >= score
           /\ score' # score => (state = PLAYING /\ state' = REVEAL) ]_vars
    /\ [](score <= 4 * (IF state \in {MENU, REVEAL} THEN round_number
                         ELSE round_number - 1))

\* C29 witness: the second Reveal, entered from a round all four won after
\* a first round that three won.
C29_Witness ==
    /\ state = REVEAL
    /\ elapsed = 0
    /\ round_number = 2
    /\ score = 7
    /\ round_results.successes = << TRUE, TRUE, TRUE, TRUE >>

\* C30: while the Wrapper has not pressed, the update of every tick that
\* stays in Playing (dt is what the tick took off the timer) moves the
\* cursor by speed * dt in the current direction and reflects it
\* at 0 and 1, as a triangle wave does: the distance past a bound is
\* travelled back from it.  The direction changes in exactly the updates
\* that leave the cursor at 0 or 1, and the cursor stays within [0, 1].
C30_TriangleWave ==
    [][ (state = PLAYING /\ state' = PLAYING /\ ~wrapper.has_pressed) =>
          LET travelled == wrapper.cursor_position
                           + Times(wrapper.cursor_speed
                                   * wrapper.cursor_direction,
                                   state_timer - state_timer')
              folded    == travelled % (2 * ONE)
              reflected == IF folded <= ONE THEN folded ELSE 2 * ONE - folded
          IN  /\ wrapper'.cursor_position = reflected
              /\ (wrapper'.cursor_direction # wrapper.cursor_direction)
                     <=> (wrapper'.cursor_position \in {0, ONE})
              /\ wrapper'.cursor_position \in 0..ONE ]_vars

\* C30 as the code has it: while the Wrapper has not pressed, the update of
\* every tick that stays in Playing moves the cursor by speed * dt in the
\* current direction and stops it at the bound it reaches or passes, the
\* distance past the bound being dropped.  The direction changes in exactly
\* the updates that leave the cursor at 0 or 1, and the cursor is within
\* [0, 1] in every state.
C30_ClampedWave ==
    /\ [](wrapper.cursor_position \in 0..ONE)
    /\ [][ (state = PLAYING /\ state' = PLAYING /\ ~wrapper.has_pressed) =>
             LET travelled == wrapper.cursor_position
                              + Times(wrapper.cursor_speed
                                      * wrapper.cursor_direction,
                                      state_timer - state_timer')
             IN  /\ wrapper'.cursor_position = Max(0, Min(ONE, travelled))
                 /\ wrapper'.cursor_direction \in {-1, 1}
                 /\ (wrapper'.cursor_direction # wrapper.cursor_direction)
                        <=> (wrapper'.cursor_position \in {0, ONE}) ]_vars

\* C30 witness: a cursor that three half seconds of Playing took from 0 to
\* 0.8 and then past 1, stopped at 1 and turned back, with no press.
C30_Witness ==
    /\ state = PLAYING
    /\ elapsed = 3
    /\ ~wrapper.has_pressed
    /\ wrapper.cursor_position = ONE
    /\ wrapper.cursor_direction = -1

(***************************************************************************)
(* Properties of Builder, Wrapper and Foreman on their own                 *)
(***************************************************************************)
\* C15: after every Builder.update, whatever the dt values, the decay rate
\* and the input, quality_bar is within [0, 1].
C15_BarInRange ==
    /\ builder.quality_bar >= 0
    /\ builder.quality_bar <= ONE

\* C15 witness: an update with a decay rate below the fill rate, the control
\* held and a long dt, which the clamp stopped at 1.
C15_Witness ==
    /\ live = {1}
    /\ calls >= 1
    /\ dt = BigDt
    /\ keys_pressed # {}
    /\ builder.decay_rate < builder.fill_rate
    /\ builder.quality_bar = ONE

\* C16: after check_success the Wrapper's success is false when no press was
\* recorded, and otherwise true exactly when the press is no farther than
\* zone_size / 2 from 0.5: in particular a press at 0.5 and a press on either
\* edge of the zone succeed.
C16_ZoneTest ==
    (live = {2} /\ calls > 0 /\ dt = 0) =>
        IF ~wrapper.has_pressed
        THEN ~wrapper.success
        ELSE LET p == wrapper.press_position[1]
                 twice == 2 * Abs(p - 500)
             IN  /\ wrapper.success <=> (twice <= wrapper.zone_size)
                 /\ p = 500 => wrapper.success
                 /\ twice = wrapper.zone_size => wrapper.success
                 /\ twice > wrapper.zone_size => ~wrapper.success

\* C16 witness: a press exactly on the lower edge of a 0.3 zone, judged a
\* success.
C16_Witness ==
    /\ live = {2}
    /\ calls > 0
    /\ dt = 0
    /\ wrapper.zone_size = 300
    /\ wrapper.press_position = << 350 >>
    /\ wrapper.success

\* C18: a Foreman with drift_multiplier 0 whose needle is at 0.5 (where reset
\* puts it) keeps it at exactly 0.5 in every update that sees neither control
\* held, whatever the dt and the draw, and check_success then gives true.
C18_NoDriftNoInput ==
    [][ ( /\ live = {4}
          /\ calls' = calls + 1
          /\ foreman.drift_multiplier = 0
          /\ foreman.needle_position = 500 ) =>
          IF dt' > 0
          THEN keys_pressed' = {} => foreman'.needle_position = 500
          ELSE foreman'.success ]_vars

\* C18 witness: such a Foreman, still at 0.5 after an update that saw no
\* control held, and a check_success that gave true.
C18_Witness ==
    /\ live = {4}
    /\ calls = UnitCalls
    /\ dt = 0
    /\ keys_pressed = {}
    /\ foreman.drift_multiplier = 0
    /\ foreman.needle_position = 500
    /\ foreman.success

\* C32: needle_position is within [0, 1] after every Foreman.update,
\* whatever the dt, the draw, the drift multiplier and the controls held,
\* and so in every state.
C32_NeedleInRange ==
    /\ [](foreman.needle_position \in 0..ONE)
    /\ [][ (live = {4} /\ calls' = calls + 1 /\ dt' > 0) =>
              foreman'.needle_position \in 0..ONE ]_vars

\* C32 witness: a needle that thirty seconds of the left control, helped by
\* the strongest drift, would have taken far below 0, held at 0.
C32_Witness ==
    /\ live = {4}
    /\ calls = 1
    /\ dt = BigDt
    /\ keys_pressed = {"LEFT"}
    /\ foreman.drift_multiplier = NIGHTMARE_DRIFT_MULTIPLIER
    /\ foreman.needle_position = 0

\* C31: for the same previous needle position, dt and drift draw, a
\* Foreman update with both left and right held yields the same needle
\* position as an update with neither held.
C31_BothCancel ==
    \A tick_dt \in DtValues, u \in FloatDraws :
        Foreman_update_float(foreman, FloatDt(tick_dt), u, TRUE, TRUE).needle_position
        = Foreman_update_float(foreman, FloatDt(tick_dt), u, FALSE, FALSE).needle_position

\* C31 as the code has it: the two needle positions agree up to the
\* rounding of the subtraction and of the addition: they differ by at most
\* the distance between neighbouring floats at the magnitude of
\* |needle + drift| + control_speed * dt.  The needle is clamped once,
\* after both controls.  (In Python's 53 bits: a needle at 0.0, dt 0.016,
\* the draw 0.5 and the multiplier 1.0 give 0.0023999999999999994 with both
\* held and 0.0024 with neither.)
C31_CancelUpToRounding ==
    \A tick_dt \in DtValues, u \in FloatDraws :
        LET t     == FloatDt(tick_dt)
            drift == FloatMul(FloatMul(FloatMul(u, foreman.drift_speed),
                                       foreman.drift_multiplier), t)
            n1    == FloatAdd(foreman.needle_position, drift)
            c     == FloatMul(foreman.control_speed, t)
            both  == Foreman_update_float(foreman, t, u, TRUE, TRUE)
            none  == Foreman_update_float(foreman, t, u, FALSE, FALSE)
        IN  /\ Abs(both.needle_position - none.needle_position)
                  <= Spacing(Abs(n1) + c)
            /\ (FloatAdd(FloatSub(n1, c), c) = n1)
                  => both.needle_position = none.needle_position

\* C31 witness: the needle a one-second update with both controls held
\* left after the first reset under the Standard multiplier and the draw
\* -1: 16/256, where no control gives 14/256.
C31_Witness ==
    /\ calls = 1
    /\ dt = 2
    /\ keys_pressed = {"LEFT", "RIGHT"}
    /\ foreman.drift_multiplier = Float(STANDARD_DRIFT_MULTIPLIER, 10)
    /\ foreman.needle_position = 16
    /\ Foreman_update_float(
           [Foreman_init_float EXCEPT !.drift_multiplier = foreman.drift_multiplier],
           FloatDt(2), Float(-1, 1), FALSE, FALSE).needle_position = 14

\* C33: every order of the catalog has a decay rate above Builder's fill
\* rate, so no Playing tick raises quality_bar, held control or not; with
\* every tick's dt above 0 the Builder's result is false in every round, no
\* round scores 4 and the "perfect" cue is never asked for.
C33_BuilderNeverWins ==
    /\ [](\A tier \in DOMAIN orders : \A i \in 1..Len(orders[tier]) :
              orders[tier][i].p1_decay_rate > builder.fill_rate)
    /\ [][ state = PLAYING => builder'.quality_bar <= builder.quality_bar ]_vars
    /\ [][ (state = PLAYING /\ state' = REVEAL) =>
              /\ builder'.quality_bar < BUILDER_QUALITY_LINE
              /\ ~builder'.success
              /\ ~round_results'.successes[1]
              /\ score' - score < 4 ]_vars
    /\ [](\A i \in 1..Len(sound_manager.requests) :
              sound_manager.requests[i] # "perfect")

\* C33 witness: the Reveal of the second round of a session whose only
\* player is the Builder: the Builder lost both rounds, and the score holds
\* only the point the undisturbed Foreman made in each.
C33_Witness ==
    /\ state = REVEAL
    /\ live = {1}
    /\ round_number = 2
    /\ ~builder.success
    /\ round_results.successes = << FALSE, FALSE, FALSE, TRUE >>
    /\ score = 2

\* C38: the Decorator's current_index is always between 0 and the length
\* of its sequence; a completed Decorator is successful with the index at
\* the length; and every update of a completed Decorator, whatever arrows
\* are pressed, leaves it as it is, so it stays completed until the reset
\* of the next configuration.
C38_DecoratorLatch ==
    /\ [](/\ 0 <= decorator.current_index
           /\ decorator.current_index <= Len(decorator.arrow_sequence))
    /\ [](decorator.completed =>
              /\ decorator.success
              /\ decorator.current_index = Len(decorator.arrow_sequence))
    /\ [][ (decorator.completed /\ calls' = calls + 1) =>
              /\ decorator'.completed
              /\ decorator'.success
              /\ decorator'.current_index = decorator.current_index
              /\ decorator' = decorator ]_vars
    /\ [][ (decorator.completed /\ ~decorator'.completed) =>
              (calls' = 0 /\ decorator'.current_index = 0) ]_vars

\* C38 witness: a sequence of three arrows completed, and an update that
\* saw the two arrows it does not hold pressed together: the index is
\* still 3.
C38_Witness ==
    /\ live = {3}
    /\ calls = RoundCalls
    /\ decorator.arrow_sequence = << "UP", "LEFT", "UP" >>
    /\ keys_pressed = {"DOWN", "RIGHT"}
    /\ decorator.completed
    /\ decorator.success
    /\ decorator.current_index = 3

(***************************************************************************)
(* Properties of the Playing tick                                          *)
(***************************************************************************)
\* C34: every Playing tick, the one that ends the phase included, updates
\* all four mechanics with its dt and its input, and the tick that ends the
\* phase evaluates the mechanics so updated.  Every round therefore holds
\* an update, and a Wrapper press that arrives on the last tick is latched
\* at the cursor that tick moved to and decides the Wrapper's result.
C34_UpdatedThenEvaluated ==
    /\ [][ state = PLAYING =>
             LET b == Builder_update(builder, dt', "P1" \in keys_pressed')
                 w == Wrapper_update(wrapper, dt', "P2" \in keys_pressed')
                 d == Decorator_update(decorator,
                                       keys_pressed' \cap ARROW_DIRECTIONS)
                 fs == { Foreman_update(foreman, dt', u,
                                        "P4_LEFT" \in keys_pressed',
                                        "P4_RIGHT" \in keys_pressed') :
                         u \in DriftDraws }
             IN  IF state' = REVEAL
                 THEN /\ builder' = Builder_check_success(b)
                      /\ wrapper' = Wrapper_check_success(w)
                      /\ decorator' = Decorator_check_success(d)
                      /\ foreman' \in { Foreman_check_success(f) : f \in fs }
                      /\ round_results'.successes =
                            << builder'.success, wrapper'.success,
                               decorator'.success, foreman'.success >>
                 ELSE /\ builder' = b
                      /\ wrapper' = w
                      /\ decorator' = d
                      /\ foreman' \in fs ]_vars
    /\ [][ (state' = REVEAL /\ state # REVEAL) => (state = PLAYING /\ dt' > 0) ]_vars
    /\ [][ ( /\ state = PLAYING /\ state' = REVEAL
             /\ ~wrapper.has_pressed /\ "P2" \in keys_pressed' ) =>
             /\ wrapper'.has_pressed
             /\ wrapper'.press_position = << wrapper'.cursor_position >>
             /\ round_results'.successes[2] =
                   ( /\ 2 * wrapper'.zone_center - wrapper'.zone_size
                           <= 2 * wrapper'.cursor_position
                     /\ 2 * wrapper'.cursor_position
                           <= 2 * wrapper'.zone_center + wrapper'.zone_size ) ]_vars

\* C34 witness: the Reveal of a two-second round whose Wrapper pressed on
\* the last tick only: 0.6 is where the cursor is after two seconds and
\* at no moment before, and the press there won.
C34_Witness ==
    /\ state = REVEAL
    /\ elapsed = 0
    /\ current_order.time_limit = 2
    /\ keys_pressed = {"P2"}
    /\ wrapper.press_position = << 600 >>
    /\ wrapper.success
    /\ round_results.successes[2]

\* C35: one Game.update call changes the phase at most once, to the next
\* phase of the cycle, however large its dt.  A Briefing tick that leaves
\* Briefing, also one whose dt exceeds the briefing duration and the time
\* limit together, enters Playing with the whole time limit on the timer and
\* evaluates nothing; a Playing tick that ends the round enters Reveal with
\* the whole reveal duration on the timer and starts no round.
C35_OneTransition ==
    /\ [][ state' # state =>
             \/ state = MENU /\ state' = BRIEFING
             \/ state = BRIEFING /\ state' = PLAYING
             \/ state = PLAYING /\ state' = REVEAL
             \/ state = REVEAL /\ state' = BRIEFING ]_vars
    /\ [][ (state = BRIEFING /\ state' # BRIEFING) =>
             /\ state' = PLAYING
             /\ state_timer' = Seconds(current_order.time_limit)
             /\ evaluated' = evaluated
             /\ round_results' = round_results
             /\ score' = score ]_vars
    /\ [][ (state = PLAYING /\ state' # PLAYING) =>
             /\ state' = REVEAL
             /\ state_timer' = Seconds(REVEAL_DURATION)
             /\ Len(evaluated') = Len(evaluated) + 4
             /\ round_number' = round_number
             /\ current_order' = current_order
             /\ current_tier' = current_tier ]_vars

\* C35 witness: Playing entered by a Briefing tick of thirty seconds, far
\* more than the four seconds of Briefing and the order's time limit: the
\* timer holds the whole time limit and nothing is evaluated.
C35_Witness ==
    /\ state = PLAYING
    /\ elapsed = 0
    /\ dt = BigDt
    /\ dt > Seconds(BRIEFING_DURATION) + Seconds(current_order.time_limit)
    /\ state_timer = Seconds(current_order.time_limit)
    /\ evaluated = << >>

\* C36: a tick handled in Menu or Reveal changes no field of any mechanic,
\* and a tick handled in Briefing changes none unless it enters Playing,
\* where each mechanic is reset and configured from the order.  A round's
\* final values and success flags therefore last through Reveal and the
\* next Briefing.
C36_MechanicsFrame ==
    /\ [][ (state = MENU \/ state = REVEAL) => UNCHANGED mechanics ]_vars
    /\ [][ state = BRIEFING =>
             IF state' = PLAYING
             THEN /\ builder' = Builder_set_difficulty(Builder_reset(builder),
                                     current_order.p1_decay_rate)
                  /\ wrapper' = Wrapper_set_difficulty(Wrapper_reset(wrapper),
                                     current_order.p2_zone_size)
                  /\ foreman' = Foreman_set_difficulty(Foreman_reset(foreman),
                                     current_tier)
                  /\ decorator' =
                        [Decorator_reset(decorator) EXCEPT
                            !.arrow_sequence = decorator'.arrow_sequence]
                  /\ Len(decorator'.arrow_sequence) = current_order.p3_arrows
                  /\ \A i \in 1..Len(decorator'.arrow_sequence) :
                        decorator'.arrow_sequence[i] \in ARROW_DIRECTIONS
             ELSE UNCHANGED mechanics ]_vars

\* C36 witness: the second round's Briefing, one second in, with the
\* Wrapper still holding the press that won the first round.
C36_Witness ==
    /\ state = BRIEFING
    /\ round_number = 2
    /\ elapsed = 2
    /\ wrapper.has_pressed
    /\ wrapper.press_position = << 400 >>
    /\ wrapper.success

(***************************************************************************)
(* Properties of the InputManager                                          *)
(***************************************************************************)
\* C22: an action is reported as pressed this tick exactly when the tick's
\* batch of events holds a key-down of one of its keys: whatever an earlier
\* tick reported is gone, and a key still held from an earlier tick reports
\* nothing.
C22_PressedThisTick ==
    \A action \in InputAction :
        is_action_pressed(input_manager, action) <=>
            \E i \in 1..Len(events) :
                /\ events[i].type = KEYDOWN
                /\ events[i].key \in key_mappings[action]

\* C22 witness: the tick after the one that pressed the space bar, which is
\* still held: p2_action is held and not reported as pressed.
C22_Witness ==
    /\ events = << >>
    /\ "K_SPACE" \in input_manager.keys_held
    /\ is_action_held(input_manager, "p2_action")
    /\ ~is_action_pressed(input_manager, "p2_action")

\* C37: after every InputManager.update a key counts as held exactly when
\* its latest event is a key-down, and an action is reported held exactly
\* when one of its keys is held.  With both keys of the Foreman's left
\* action held, the release of one keeps the action held and the release
\* of the other clears it.
C37_HeldWhileAnyKey ==
    /\ [](\A action \in InputAction :
              is_action_held(input_manager, action) <=>
                  key_mappings[action] \cap input_manager.keys_held # {})
    /\ [][ \A key \in EventKeys :
             LET of_key == {i \in 1..Len(events') : events'[i].key = key}
                 latest == CHOOSE i \in of_key : \A j \in of_key : j <= i
             IN  key \in input_manager'.keys_held <=>
                     IF of_key = {} THEN key \in input_manager.keys_held
                     ELSE events'[latest].type = KEYDOWN ]_vars
    /\ [][ ( /\ {"K_KP4", "K_LEFTBRACKET"} \subseteq input_manager.keys_held
             /\ Len(events') = 1
             /\ events'[1].type = KEYUP ) =>
             is_action_held(input_manager', "p4_left") ]_vars
    /\ [][ ( /\ Cardinality({"K_KP4", "K_LEFTBRACKET"}
                             \cap input_manager.keys_held) = 1
             /\ Len(events') = 1
             /\ events'[1].type = KEYUP
             /\ events'[1].key \in input_manager.keys_held
             /\ events'[1].key \in {"K_KP4", "K_LEFTBRACKET"} ) =>
             ~is_action_held(input_manager', "p4_left") ]_vars

\* C37 witness: a tick that pressed and released the keypad 4 while the
\* left bracket was held from before: the Foreman's left action is still
\* held, and not by the keypad 4.
C37_Witness ==
    /\ events = << [type |-> KEYDOWN, key |-> "K_KP4"],
                   [type |-> KEYUP, key |-> "K_KP4"] >>
    /\ input_manager.keys_held = {"K_LEFTBRACKET"}
    /\ is_action_held(input_manager, "p4_left")
    /\ is_action_pressed(input_manager, "p4_left")

(***************************************************************************)
(* Properties of the sound requests                                        *)
(***************************************************************************)
\* C24: the tick that enters Reveal asks for exactly one sound, the outcome
\* cue of the round score: "perfect" for 4, "success" for 2 or 3, "fail"
\* for 0 or 1.
C24_OutcomeCue ==
    [][ (state # REVEAL /\ state' = REVEAL) =>
          LET round_score == score' - score
              cue == CASE round_score = 4 -> "perfect"
                       [] round_score \in {2, 3} -> "success"
                       [] round_score \in {0, 1} -> "fail"
          IN  sound_manager'.requests = Append(sound_manager.requests, cue) ]_vars

\* C24 witness: a round all four won, entered into Reveal with the
\* "perfect" cue as the latest request.
C24_Witness ==
    /\ state = REVEAL
    /\ elapsed = 0
    /\ round_results.successes = << TRUE, TRUE, TRUE, TRUE >>
    /\ sound_manager.requests[Len(sound_manager.requests)] = "perfect"

\* C25: a countdown loop starts only in a Playing tick that leaves the timer
\* at most at 5 and above 0; never more than one plays, whatever the ticks
\* and the mute toggles; none plays in Menu, Briefing or Reveal.
C25_Countdown ==
    /\ [](sound_manager.looping["countdown"] <= 1)
    /\ [](state \in {MENU, BRIEFING, REVEAL} =>
              sound_manager.looping["countdown"] = 0)
    /\ [][ sound_manager'.looping["countdown"]
              > sound_manager.looping["countdown"] =>
              /\ state = PLAYING
              /\ state' = PLAYING
              /\ state_timer' <= Seconds(5)
              /\ state_timer' > 0 ]_vars

\* C25 witness: the loop playing, once, three seconds before the end of a
\* Playing phase that was entered muted (the briefing track is still the
\* current one) and is muted no more.
C25_Witness ==
    /\ state = PLAYING
    /\ state_timer = Seconds(3)
    /\ elapsed = Seconds(5)
    /\ ~sound_manager.muted
    /\ "countdown" \in sound_manager.sfx_channels
    /\ sound_manager.looping["countdown"] = 1
    /\ sound_manager.current_music = BRIEFING

=============================================================================
